---- MODULE Spec2Model ----
(***************************************************************************)
(* deck-narrator: the video generation run of VideoGeneration.tsx          *)
(* (startGeneration: the synthesis loop, the compilation, Retry), the part *)
(* of App.tsx it reports to, and VideoCompiler.compile / combineAudio /    *)
(* renderSlides / getSupportedMimeType of src/src/services/videoCompiler.ts*)
(*                                                                         *)
(* Audio time is counted in samples of the audio context (SampleRate per   *)
(* second); wall-clock time (performance.now()) is counted in ticks of     *)
(* 1/TicksPerSecond s, chosen so that frameDuration = 1000/fps ms is a     *)
(* whole number of ticks.  Every product the code forms in floating point  *)
(* is formed here exactly, as a fraction, and Math.ceil is CeilDiv.        *)
(*                                                                         *)
(* The code is single-threaded: an action is a stretch of code between two *)
(* suspension points (await / timer) or a part of such a stretch; recorder *)
(* events fire only while the run is suspended (AtAwait).                  *)
(***************************************************************************)
EXTENDS Integers, Sequences, FiniteSets

(* ---------------------------------------------------------------------- *)
(* Program constants                                                       *)
(* ---------------------------------------------------------------------- *)
fps == 30
audioPadding == 400
\* this.audioContext.sampleRate: fixed by the browser; 8000 Hz is the lowest
\* rate every AudioContext supports
SampleRate == 8000

\* API_CONFIG.video.codecs: the object form read by videoCompiler.ts
\* (codecs.mp4, codecs.webm) and the list form read by the later compiler.
codecsObject == [mp4 |-> "video/mp4; codecs=avc1,opus", webm |-> "video/webm; codecs=vp9,opus"]
codecsList == << "video/mp4; codecs=\"avc1.42E01E, mp4a.40.2\"", "video/mp4; codecs=avc1,opus", "video/webm; codecs=vp9,opus" >>

(* ---------------------------------------------------------------------- *)
(* Bounds of the model                                                     *)
(* ---------------------------------------------------------------------- *)
MaxSlides == 3
\* ticks one image load takes
ImageLoadTicks == 7
\* longest extra delay of one loop iteration, in ticks (2.5 frames)
MaxJitter == 250
\* a delay is injected only while the loop is at most this late
MaxLate == 0
\* calls of startGeneration (the mount and the Retry clicks) of one instance
MaxRuns == 2
\* dataavailable events of one recording
MaxChunks == 2
\* calls of combineAudio on one slide list
MaxCombineCalls == 2
\* handleUploadComplete calls that wait for extractSlides at the same time
MaxUploads == 2
\* slides of one combineAudio call with a padding and rate of its own
MaxBatch == 52

TicksPerSecond == 100 * fps
\* audio lengths (in samples) a synthesized slide may have: empty audio,
\* half a frame, one and a half frames
AudioLengths == {0, SampleRate \div (2 * fps), (3 * SampleRate) \div (2 * fps)}
\* spec scenario A: 2.0 s, 3.0 s, 1.0 s
ScenarioA == << 2 * SampleRate, 3 * SampleRate, 1 * SampleRate >>

Null == "null"
\* no blob (null / undefined)
NoBlob == [type |-> Null, parts |-> << >>]

RECURSIVE SeqsUpTo(_, _)
SeqsUpTo(S, n) ==
  IF n = 0 THEN { << >> }
  ELSE LET shorter == SeqsUpTo(S, n - 1)
       IN shorter \cup { Append(s, x) : s \in { t \in shorter : Len(t) = n - 1 }, x \in S }

LengthLists == SeqsUpTo(AudioLengths, MaxSlides) \cup { ScenarioA }
\* the lists every provider and codec environment is combined with: no slide,
\* one slide, two slides (the shortest list with a wait between two slides)
ShortLists == SeqsUpTo({SampleRate \div (2 * fps)}, 2)

\* slide.audioBuffer is undefined
NoAudio ==
  [present |-> FALSE, length |-> 0, sampleRate |-> 0, numberOfChannels |-> 0,
   script |-> 0, run |-> 0]

\* an AudioBuffer decoded by a context of the compiler's rate, one channel
Buffer(length, script, run) ==
  [present |-> TRUE, length |-> length, sampleRate |-> SampleRate, numberOfChannels |-> 1,
   script |-> script, run |-> run]

\* a Slide (types/index.ts): its script (named by the slide's number), its
\* audioBuffer (absent, or a buffer of `length` samples synthesized from
\* `script` in generation run `run`) and whether its imageDataUrl loads.
\* A length of -1 makes a slide without audio.
MakeSlides(lengths, bad) ==
  [ i \in 1..Len(lengths) |->
      [ script |-> i,
        text |-> "a",
        audioBuffer |-> IF lengths[i] < 0 THEN NoAudio
                        ELSE Buffer(lengths[i], i, 0),
        imageOk |-> (i # bad) ] ]

CeilDiv(a, b) == (a + b - 1) \div b

VARIABLES
  slides,            \* startGeneration's updatedSlides, the list handed to compile
  slidesState,       \* VideoGeneration's slides state (useState(initialSlides))
  ttsProvider,       \* the ttsProvider prop
  speech,            \* speech[s]: samples the provider synthesizes for script s
  stage,             \* App's workflow stage
  runs,              \* calls of startGeneration so far
  ttsIndex,          \* the i of the synthesis loop
  calls,             \* the scripts generateSpeech was called with in this run
  errorSlide,        \* the slide number the error message names, or 0
  cancelRequested,   \* whether the user has asked to cancel the run
  types,             \* the candidate list of getSupportedMimeType
  supported,         \* the codecs MediaRecorder.isTypeSupported accepts
  pc,                \* position of startGeneration / compile / renderSlides
  error,             \* VideoGeneration's error state (its kind), or Null
  audioContext,      \* VideoCompiler.audioContext: "none" / "open" / "closed"
  mimeType,          \* compile's mimeType
  combinedAudio,     \* the buffer combineAudio returned: [length, offsets]
  canvasStream,      \* whether canvas.captureStream has been called
  audioSource,       \* "none" / "created" / "playing" / "stopped"
  recorder,          \* the MediaRecorder: "none" / "inactive" (created) / "recording" /
                     \*   "stopping" (stop() called, stop event pending) / "stopped" /
                     \*   "failing" (error event fired, stop event pending) /
                     \*   "failed" (error event and stop event fired)
  recordingPromise,  \* "none" / "pending" / "resolved" / "rejected"
  audioConfig,       \* API_CONFIG.video.audioPadding (ms) and audioContext.sampleRate (Hz)
  variantDraws,      \* what each earlier renderSlides has drawn for `slides`, once run
  projectSlides,     \* App: project.slides
  extracting,        \* App: the handleUploadComplete calls waiting for extractSlides
  reviewSlides,      \* ScriptReview: its slides state
  batch,             \* ScriptReview: the generateAllScripts call in progress
  combineResults,    \* the buffers combineAudio has returned, in call order
  progressEvents,    \* the progress values set in this run (setProgress), in order
  emitted,           \* the data the recorder has emitted: [id, size] per dataavailable event
  chunks,            \* compile's chunks array
  recordedBlob,      \* the blob onstop has built, or NoBlob
  startCalls,        \* calls of mediaRecorder.start()
  stopCalls,         \* calls of mediaRecorder.stop()
  slideData,         \* renderSlides: frames per slide
  totalFrames,
  currentFrame,
  currentSlideIndex, \* 0-based, as in the code
  frameInCurrentSlide,
  drawn,             \* the last frame drawn by the loop: [frame, slide], slide 0-based
  framesDrawn,       \* number of drawImage calls of the frame loop
  now,               \* performance.now()
  startTime,
  targetTime,        \* the target of the last wait
  yielded,           \* whether the last loop iteration suspended in setTimeout
  videoBlob,         \* the blob compile returned, or NoBlob
  delivered          \* the blob passed to onComplete, or NoBlob

vars == << slides, slidesState, ttsProvider, speech, stage, runs, ttsIndex, calls, errorSlide,
           cancelRequested, types, supported, pc, error, audioContext, mimeType,
           combinedAudio, canvasStream, audioSource, recorder, recordingPromise,
           audioConfig, variantDraws, projectSlides, extracting, reviewSlides, batch, combineResults, progressEvents, emitted, chunks, recordedBlob, startCalls, stopCalls, slideData, totalFrames, currentFrame,
           currentSlideIndex, frameInCurrentSlide, drawn, framesDrawn, now,
           startTime, targetTime, yielded, videoBlob, delivered >>

envVars == << types, supported, ttsProvider, speech, audioConfig, variantDraws >>
genVars == << slides, slidesState, stage, runs, ttsIndex, calls, errorSlide, cancelRequested >>
chunkVars == << emitted, chunks, recordedBlob >>
appVars == << projectSlides, extracting, reviewSlides, batch >>

\* no generateAllScripts call is in progress
NoBatch == [active |-> FALSE, loading |-> 0, snapshot |-> << >>]
recVars == << canvasStream, audioSource, recorder, recordingPromise, startCalls, stopCalls >>
loopVars == << slideData, totalFrames, currentFrame, currentSlideIndex,
               frameInCurrentSlide, drawn, framesDrawn, startTime, targetTime, yielded >>

NoFrame == [frame |-> -1, slide |-> -1]

\* the earlier renderSlides of the repository, by how they pace the frames
Variants == {"perSlideRestart", "fixedSleep", "autoCapture"}
\* a renderSlides that has not been called
NotRun == [ran |-> FALSE, draws |-> << >>, error |-> "null"]
NoVariantRuns == [ v \in Variants |-> NotRun ]

Range(s) == { s[i] : i \in 1..Len(s) }

\* the ttsProvider values of types/index.ts
Providers == {"webspeech", "lemonfox", "putertts"}

\* the slides as script review hands them over: no audio yet
Unsynthesized(sl) == [ i \in 1..Len(sl) |-> [sl[i] EXCEPT !.audioBuffer = NoAudio] ]

\* the state of a run's locals before the run has created anything
FreshLocals ==
  /\ audioContext = "none"
  /\ mimeType = Null
  /\ combinedAudio = [length |-> 0, offsets |-> << >>]
  /\ combineResults = << >>
  /\ canvasStream = FALSE
  /\ audioSource = "none"
  /\ recorder = "none"
  /\ recordingPromise = "none"
  /\ progressEvents = << >>
  /\ emitted = << >>
  /\ chunks = << >>
  /\ recordedBlob = NoBlob
  /\ startCalls = 0
  /\ stopCalls = 0
  /\ slideData = << >>
  /\ totalFrames = 0
  /\ currentFrame = 0
  /\ currentSlideIndex = 0
  /\ frameInCurrentSlide = 0
  /\ drawn = NoFrame
  /\ framesDrawn = 0
  /\ now = 0
  /\ startTime = 0
  /\ targetTime = 0
  /\ yielded = FALSE
  /\ videoBlob = NoBlob

\* VideoGeneration has just been mounted by App (stage 'generate'); its
\* effect has not run yet
\* The slide list and its surroundings are varied one at a time: every slide
\* list with the provider and the browser that let the run through, and every
\* provider, candidate list and isTypeSupported answer with the short lists.
Init ==
  /\ \/ /\ \E lengths \in LengthLists : \E bad \in 0..Len(lengths) :
              /\ speech = lengths
              /\ slidesState = Unsynthesized(MakeSlides(lengths, bad))
        /\ ttsProvider = "lemonfox"
        /\ types = << codecsObject.mp4, codecsObject.webm >>
        /\ supported = Range(types)
     \/ /\ \E lengths \in ShortLists : \E bad \in 0..Len(lengths) :
              /\ speech = lengths
              /\ slidesState = Unsynthesized(MakeSlides(lengths, bad))
        /\ ttsProvider \in Providers
        /\ types \in { << codecsObject.mp4, codecsObject.webm >>, codecsList }
        /\ supported \in SUBSET Range(types)
  /\ slides = << >>
  /\ projectSlides = slidesState
  /\ extracting = {}
  /\ audioConfig = [padding |-> audioPadding, sampleRate |-> SampleRate]
  /\ reviewSlides = << >>
  /\ variantDraws = NoVariantRuns
  /\ batch = NoBatch
  /\ stage = "generate"
  /\ runs = 0
  /\ ttsIndex = 0
  /\ calls = << >>
  /\ errorSlide = 0
  /\ cancelRequested = FALSE
  /\ pc = "mount"
  /\ error = Null
  /\ FreshLocals
  /\ delivered = NoBlob

(* ---------------------------------------------------------------------- *)
(* Pure functions of VideoCompiler                                         *)
(* ---------------------------------------------------------------------- *)

\* for (const type of types) if (isTypeSupported(type)) return type; return null
RECURSIVE firstSupportedFrom(_, _, _)
firstSupportedFrom(ts, sup, i) ==
  IF i > Len(ts) THEN Null
  ELSE IF ts[i] \in sup THEN ts[i]
  ELSE firstSupportedFrom(ts, sup, i + 1)

\* mutant: the loop does not return at the first match and keeps the last one
RECURSIVE lastSupportedFrom(_, _, _)
lastSupportedFrom(ts, sup, i) ==
  IF i < 1 THEN Null
  ELSE IF ts[i] \in sup THEN ts[i]
  ELSE lastSupportedFrom(ts, sup, i - 1)

getLastSupportedMimeType(ts, sup) == lastSupportedFrom(ts, sup, Len(ts))

getSupportedMimeType(ts, sup) == firstSupportedFrom(ts, sup, 1)

\* mutant: an empty buffer is treated like a missing one and adds nothing
paddedScaledSkipEmpty(slide) ==
  IF slide.audioBuffer.length = 0 THEN 0
  ELSE (slide.audioBuffer.length * 1000 * (SampleRate \div 1000))
         \div (slide.audioBuffer.sampleRate \div 1000)
       + audioPadding * SampleRate

\* (slide.audioBuffer.duration + paddingSeconds) * sampleRate * 1000, exactly:
\* duration = length / sampleRate, paddingSeconds = audioPadding / 1000
\* the buffer's own rate (whole kHz in this model); the second sampleRate
\* is the compiler's context rate
paddedScaled(slide) ==
  (slide.audioBuffer.length * 1000 * (SampleRate \div 1000))
    \div (slide.audioBuffer.sampleRate \div 1000)
  + audioPadding * SampleRate

\* combineAudio's first loop: totalDuration * sampleRate * 1000
RECURSIVE totalDurationScaled(_, _)
totalDurationScaled(sl, i) ==
  IF i > Len(sl) THEN 0
  ELSE (IF sl[i].audioBuffer.present THEN paddedScaled(sl[i]) ELSE 0)
       + totalDurationScaled(sl, i + 1)

\* Math.ceil(totalDuration * sampleRate)
totalSamples(sl) == CeilDiv(totalDurationScaled(sl, 1), 1000)

\* Math.ceil(paddingSeconds * sampleRate)
paddingSamples == CeilDiv(audioPadding * SampleRate, 1000)

\* combineAudio's second loop: the offset at which slide i's samples are set
\* (slides without audio are skipped and keep the running offset)
RECURSIVE copyOffset(_, _)
copyOffset(sl, i) ==
  IF i <= 1 THEN 0
  ELSE copyOffset(sl, i - 1)
       + (IF sl[i - 1].audioBuffer.present
          THEN sl[i - 1].audioBuffer.length + paddingSamples ELSE 0)

\* const numberOfChannels = slides[0]?.audioBuffer?.numberOfChannels || 2
numberOfChannels(sl) ==
  IF Len(sl) >= 1 /\ sl[1].audioBuffer.present /\ sl[1].audioBuffer.numberOfChannels # 0
  THEN sl[1].audioBuffer.numberOfChannels ELSE 2

\* the copy loop from slide i on: the first exception it raises, or Null.
\* targetData.set(sourceData, offset) throws a RangeError when the source does
\* not fit behind offset (channel 0 comes first); getChannelData(channel)
\* throws an IndexSizeError for a channel the slide's buffer does not have.
RECURSIVE copyError(_, _)
copyError(sl, i) ==
  IF i > Len(sl) THEN Null
  ELSE IF ~sl[i].audioBuffer.present THEN copyError(sl, i + 1)
  ELSE IF copyOffset(sl, i) + sl[i].audioBuffer.length > totalSamples(sl) THEN "Range"
  ELSE IF sl[i].audioBuffer.numberOfChannels < numberOfChannels(sl) THEN "IndexSize"
  ELSE copyError(sl, i + 1)

\* the exception combineAudio throws, or Null: createBuffer rejects a length
\* of 0 frames with a NotSupportedError
combineAudioError(sl) ==
  IF totalSamples(sl) = 0 THEN "NotSupported" ELSE copyError(sl, 1)

\* mutant: the copy position is kept from one call to the next
combineAudioResuming(sl) ==
  LET base == IF combineResults = << >> THEN 0
              ELSE combineResults[Len(combineResults)].length
  IN [ length |-> base + totalSamples(sl),
       offsets |-> [ i \in 1..Len(sl) |-> base + copyOffset(sl, i) ] ]

combineAudio(sl) ==
  [ length |-> totalSamples(sl),
    offsets |-> [ i \in 1..Len(sl) |-> copyOffset(sl, i) ] ]

\* renderSlides: slideFrames = Math.ceil(((audioBuffer?.duration || 0) + paddingSeconds) * fps)
slideFrames(slide) ==
  CeilDiv((IF slide.audioBuffer.present THEN paddedScaled(slide)
           ELSE audioPadding * SampleRate) * fps,
          1000 * SampleRate)

RECURSIVE SumSeq(_, _)
SumSeq(s, i) == IF i > Len(s) THEN 0 ELSE s[i] + SumSeq(s, i + 1)

\* frameDuration = 1000 / fps ms, in ticks
frameDuration == TicksPerSecond \div fps

\* mutant: an incremental wait of one frameDuration from the iteration's start
frameTargetTimeIncremental(start, frame, iterationStart) == iterationStart + frameDuration

\* targetTime = startTime + (currentFrame + 1) * frameDuration; iterationStart
\* (the time the iteration began) is not used by the code
frameTargetTime(start, frame, iterationStart) == start + (frame + 1) * frameDuration

\* mutant: the last resolve / reject wins
settleOverwrite(promise, outcome) == outcome

\* mutant: resolve and reject are lost, the promise stays pending
settleNever(promise, outcome) == promise

\* a promise settles once: resolve / reject after that are no-ops
settle(promise, outcome) == IF promise = "pending" THEN outcome ELSE promise

(* ---------------------------------------------------------------------- *)
(* The run                                                                 *)
(* ---------------------------------------------------------------------- *)

\* mutant: the catch block logs the error and does not set it
FailSilently(kind) == pc' = "failed" /\ error' = Null

\* startGeneration's catch block: setError(...), setIsGenerating(false)
Fail(kind) == pc' = "failed" /\ error' = kind

\* for (let i = 0; i < updatedSlides.length; i++): the loop test
loopContinues(i, n) == i < n

\* mutant: the buffer is stored on the following slide (on the first, from the last)
storeAudioShifted(sl, i, buffer) ==
  [sl EXCEPT ![((i + 1) % Len(sl)) + 1] = [@ EXCEPT !.audioBuffer = buffer]]

\* mutant: a slide that has audio from an earlier run keeps it
storeAudioKeepExisting(sl, i, buffer) ==
  IF sl[i + 1].audioBuffer.present THEN sl
  ELSE [sl EXCEPT ![i + 1] = [@ EXCEPT !.audioBuffer = buffer]]

\* updatedSlides[i] = { ...slide, audioBuffer, audioDuration }, i 0-based
storeAudio(sl, i, buffer) == [sl EXCEPT ![i + 1] = [@ EXCEPT !.audioBuffer = buffer]]

\* what ttsService.generateSpeech(script) resolves with in run r
generateSpeech(script, r) ==
  Buffer(speech[script], script, r)

\* Math.round(a / b) for a >= 0, b > 0
Round(a, b) == (2 * a + b) \div (2 * b)

Progress(st, current, total, pct) ==
  [stage |-> st, currentSlide |-> current, totalSlides |-> total, percentage |-> pct]

\* setProgress at the head of loop round i (0-based) of n slides
ttsProgress(i, n) == Progress("tts", i + 1, n, Round((i + 1) * 30, n))

\* mutant: the bar starts again from 0 for the compile step
renderingProgressFromZero(n) == Progress("rendering", 0, n, 0)

\* setProgress after the loop
renderingProgress(n) == Progress("rendering", 0, n, 30)

\* mutant: the compiler's percentage is added to the 30 without scaling
compilerProgressUnscaled(event) == [event EXCEPT !.percentage = 30 + @]

\* the callback given to the VideoCompiler: setProgress({ ...compileProgress,
\* percentage: 30 + Math.round((compileProgress.percentage / 100) * 70) })
compilerProgress(event) == [event EXCEPT !.percentage = 30 + Round(@ * 70, 100)]

\* compile's last progressCallback, as the component's callback stores it
completeProgress(n) == compilerProgress(Progress("complete", n, n, 100))

\* the provider of the initial project state and of UploadSetup's initial state
defaultProvider == "webspeech"

\* mutant: the Web Speech check is left out
isWebSpeechNever(provider) == FALSE

\* if (ttsProvider === 'webspeech') throw new Error('Web Speech API cannot be
\* used for video generation. ...')
isWebSpeech(provider) == provider = "webspeech"

\* startGeneration from its first line to its first await: setError(null), the
\* provider check, updatedSlides = [...slides] and the loop up to the first
\* generateSpeech call (with no slide, up to new VideoCompiler).  The run has
\* its own compiler, recorder and loop variables (FreshLocals); the clock is
\* read relative to the run's start.
startGeneration_enter ==
  /\ runs' = runs + 1
  /\ audioContext' = "none"
  /\ mimeType' = Null
  /\ combinedAudio' = [length |-> 0, offsets |-> << >>]
  /\ combineResults' = << >>
  /\ canvasStream' = FALSE
  /\ audioSource' = "none"
  /\ recorder' = "none"
  /\ recordingPromise' = "none"
  /\ emitted' = << >>
  /\ chunks' = << >>
  /\ recordedBlob' = NoBlob
  /\ startCalls' = 0
  /\ stopCalls' = 0
  /\ slideData' = << >>
  /\ totalFrames' = 0
  /\ currentFrame' = 0
  /\ currentSlideIndex' = 0
  /\ frameInCurrentSlide' = 0
  /\ drawn' = NoFrame
  /\ framesDrawn' = 0
  /\ now' = 0
  /\ startTime' = 0
  /\ targetTime' = 0
  /\ yielded' = FALSE
  /\ videoBlob' = NoBlob
  /\ slides' = slidesState
  /\ ttsIndex' = 0
  /\ errorSlide' = 0
  /\ cancelRequested' = FALSE
  /\ IF isWebSpeech(ttsProvider)
     THEN Fail("WebSpeech") /\ calls' = << >> /\ progressEvents' = << >>
     ELSE /\ error' = Null
          /\ IF loopContinues(0, Len(slidesState))
             THEN /\ pc' = "tts" /\ calls' = << slidesState[1].script >>
                  /\ progressEvents' = << Progress("tts", 0, Len(slidesState), 0),
                                          ttsProgress(0, Len(slidesState)) >>
             ELSE /\ pc' = "new" /\ calls' = << >>
                  /\ progressEvents' = << Progress("tts", 0, Len(slidesState), 0),
                                          renderingProgress(Len(slidesState)) >>
  /\ UNCHANGED << envVars, appVars, slidesState, stage, delivered >>

\* useEffect(() => { startGeneration(); }, []): the effect of the mount
startGeneration_mount ==
  /\ pc = "mount"
  /\ startGeneration_enter

\* mutant: the Retry button is rendered whatever the error state is
RetryAlways ==
  /\ pc # "mount"
  /\ stage = "generate"
  /\ runs < MaxRuns
  /\ startGeneration_enter

\* <button onClick={startGeneration}>Retry</button>, rendered inside
\* {error && (...)} while VideoGeneration is mounted
Retry ==
  /\ error # Null
  /\ stage = "generate"
  /\ runs < MaxRuns
  /\ startGeneration_enter

\* the loop after slide i (0-based) is done: the next generateSpeech call, or
\* after the last slide setSlides(updatedSlides) and on to new VideoCompiler
startGeneration_nextSlide(i) ==
  IF loopContinues(i + 1, Len(slides))
  THEN /\ ttsIndex' = i + 1
       /\ calls' = Append(calls, slides[i + 2].script)
       /\ pc' = "tts"
       /\ slidesState' = slidesState
       /\ progressEvents' = Append(progressEvents, ttsProgress(i + 1, Len(slidesState)))
  ELSE /\ ttsIndex' = i + 1
       /\ calls' = calls
       /\ pc' = "new"
       /\ slidesState' = slides'
       /\ progressEvents' = Append(progressEvents, renderingProgress(Len(slidesState)))

\* mutant: a failed synthesis is logged and the loop goes on to the next slide
startGeneration_speechFailedIgnored ==
  /\ pc = "tts"
  /\ slides' = slides
  /\ startGeneration_nextSlide(ttsIndex)
  /\ UNCHANGED << envVars, appVars, combineResults, chunkVars, stage, runs, errorSlide, cancelRequested, error, audioContext,
                  mimeType, combinedAudio, recVars, loopVars, now, videoBlob, delivered >>

\* mutant: the inner catch is missing, the provider's own message is shown
startGeneration_speechFailedUnnamed ==
  /\ pc = "tts"
  /\ Fail("Synthesis")
  /\ errorSlide' = 0
  /\ UNCHANGED << envVars, appVars, combineResults, progressEvents, chunkVars, slides, slidesState, stage, runs, ttsIndex, calls,
                  cancelRequested, audioContext, mimeType, combinedAudio, recVars,
                  loopVars, now, videoBlob, delivered >>

\* await ttsService.generateSpeech(...) rejects: the inner catch rethrows
\* 'Failed to generate speech for slide ${i + 1}', the outer catch sets the error
startGeneration_speechFailed ==
  /\ pc = "tts"
  /\ Fail("Synthesis")
  /\ errorSlide' = ttsIndex + 1
  /\ UNCHANGED << envVars, appVars, combineResults, progressEvents, chunkVars, slides, slidesState, stage, runs, ttsIndex, calls,
                  cancelRequested, audioContext, mimeType, combinedAudio, recVars,
                  loopVars, now, videoBlob, delivered >>

\* await ttsService.generateSpeech(...) resolves: the buffer is stored; then
\* the rate-limit wait (putertts, not after the last slide) or the next slide
startGeneration_speechDone ==
  /\ pc = "tts"
  /\ slides' = storeAudio(slides, ttsIndex, generateSpeech(slides[ttsIndex + 1].script, runs))
  /\ IF ttsProvider = "putertts" /\ ttsIndex < Len(slides) - 1
     THEN pc' = "ttsDelay" /\ UNCHANGED << ttsIndex, calls, slidesState, progressEvents >>
     ELSE startGeneration_nextSlide(ttsIndex)
  /\ UNCHANGED << envVars, appVars, combineResults, chunkVars, stage, runs, errorSlide, cancelRequested, error, audioContext,
                  mimeType, combinedAudio, recVars, loopVars, now, videoBlob, delivered >>

\* await new Promise(resolve => setTimeout(resolve, 1500)) is over
startGeneration_rateLimitDelay ==
  /\ pc = "ttsDelay"
  /\ startGeneration_nextSlide(ttsIndex)
  /\ UNCHANGED << envVars, appVars, combineResults, chunkVars, slides, stage, runs, errorSlide, cancelRequested, error,
                  audioContext, mimeType, combinedAudio, recVars, loopVars, now,
                  videoBlob, delivered >>

\* const compiler = new VideoCompiler(...): the constructor opens the AudioContext
NewVideoCompiler ==
  /\ pc = "new"
  /\ audioContext' = "open"
  /\ pc' = "loadFirst"
  /\ UNCHANGED << envVars, appVars, combineResults, progressEvents, chunkVars, genVars, error, mimeType, combinedAudio, recVars, loopVars, now,
                  videoBlob, delivered >>

\* compile: await this.loadImage(slides[0].imageDataUrl)
compile_loadFirstImage ==
  /\ pc = "loadFirst"
  /\ now' = now + ImageLoadTicks
  /\ IF Len(slides) = 0 THEN Fail("TypeError")
     ELSE IF slides[1].imageOk THEN pc' = "negotiate" /\ error' = error
     ELSE Fail("ImageLoad")
  /\ UNCHANGED << envVars, appVars, combineResults, progressEvents, chunkVars, genVars, audioContext, mimeType, combinedAudio, recVars, loopVars,
                  videoBlob, delivered >>

\* mutant: the null check of mimeType is missing
compile_negotiateUnchecked ==
  /\ pc = "negotiate"
  /\ mimeType' = getSupportedMimeType(types, supported)
  /\ pc' = "combine"
  /\ UNCHANGED << envVars, appVars, combineResults, progressEvents, chunkVars, genVars, error, audioContext, combinedAudio, recVars, loopVars, now,
                  videoBlob, delivered >>

\* compile: const mimeType = this.getSupportedMimeType(); if (!mimeType) throw
compile_negotiate ==
  /\ pc = "negotiate"
  /\ mimeType' = getSupportedMimeType(types, supported)
  /\ IF mimeType' = Null THEN Fail("NoCodec")
     ELSE pc' = "combine" /\ error' = error
  /\ UNCHANGED << envVars, appVars, combineResults, progressEvents, chunkVars, genVars, audioContext, combinedAudio, recVars, loopVars, now,
                  videoBlob, delivered >>

\* compile: const combinedAudio = await this.combineAudio(slides)
compile_combineAudio ==
  /\ pc = "combine"
  /\ IF combineAudioError(slides) # Null
     THEN Fail(combineAudioError(slides)) /\ UNCHANGED << combinedAudio, combineResults >>
     ELSE /\ combinedAudio' = combineAudio(slides)
          /\ combineResults' = Append(combineResults, combinedAudio')
          /\ pc' = "createRecorder"
          /\ error' = error
  /\ UNCHANGED << envVars, appVars, progressEvents, chunkVars, genVars, audioContext, mimeType, recVars, loopVars, now,
                  videoBlob, delivered >>

\* compile: captureStream, createBufferSource, new MediaRecorder, the handlers,
\* the recordingPromise
compile_createRecorder ==
  /\ pc = "createRecorder"
  /\ canvasStream' = TRUE
  /\ audioSource' = "created"
  /\ recorder' = "inactive"
  /\ recordingPromise' = "pending"
  /\ pc' = "start"
  /\ UNCHANGED << envVars, appVars, combineResults, progressEvents, chunkVars, genVars, error, audioContext, mimeType, combinedAudio, startCalls,
                  stopCalls, loopVars, now, videoBlob, delivered >>

\* mutant: mediaRecorder.start() is missing
compile_startRecordingSkipped ==
  /\ pc = "start"
  /\ audioSource' = "playing"
  /\ pc' = "preload"
  /\ UNCHANGED << envVars, appVars, combineResults, progressEvents, chunkVars, genVars, error, audioContext, mimeType, combinedAudio, canvasStream,
                  recorder, recordingPromise, startCalls, stopCalls, loopVars, now,
                  videoBlob, delivered >>

\* mutant: the audio is started after a timer (as in the compiler of
\* src/unnamed/part_007), the recorder is already recording
compile_startRecordingDelayed ==
  /\ pc = "start"
  /\ recorder' = "recording"
  /\ startCalls' = startCalls + 1
  /\ pc' = "preload"
  /\ UNCHANGED << envVars, appVars, combineResults, progressEvents, chunkVars, genVars, error, audioContext, mimeType, combinedAudio, canvasStream,
                  audioSource, recordingPromise, stopCalls, loopVars, now, videoBlob, delivered >>

\* compile: mediaRecorder.start(); audioSource.start(0); then renderSlides up to
\* its first await
compile_startRecording ==
  /\ pc = "start"
  /\ recorder' = "recording"
  /\ startCalls' = startCalls + 1
  /\ audioSource' = "playing"
  /\ pc' = "preload"
  /\ UNCHANGED << envVars, appVars, combineResults, progressEvents, chunkVars, genVars, error, audioContext, mimeType, combinedAudio, canvasStream,
                  recordingPromise, stopCalls, loopVars, now, videoBlob, delivered >>

\* renderSlides: one round of the pre-load loop (await this.loadImage); after
\* the last slide, totalFrames and startTime
renderSlides_preload ==
  /\ pc = "preload"
  /\ now' = now + ImageLoadTicks
  /\ LET i == Len(slideData) + 1
         data == Append(slideData, slideFrames(slides[i]))
     IN IF ~slides[i].imageOk
        THEN /\ Fail("ImageLoad")
             /\ UNCHANGED << slideData, totalFrames, startTime >>
        ELSE /\ slideData' = data
             /\ error' = error
             /\ IF i < Len(slides)
                THEN pc' = "preload" /\ UNCHANGED << totalFrames, startTime >>
                ELSE /\ totalFrames' = SumSeq(data, 1)
                     /\ startTime' = now'
                     /\ pc' = IF totalFrames' > 0 THEN "render" ELSE "stop"
  /\ UNCHANGED << envVars, appVars, combineResults, progressEvents, chunkVars, genVars, audioContext, mimeType, combinedAudio, recVars, currentFrame,
                  currentSlideIndex, frameInCurrentSlide, drawn, framesDrawn,
                  targetTime, yielded, videoBlob, delivered >>

\* mutant: the slide index wraps around after the second slide
nextSlideIndexWrapped(advance, index) == IF advance THEN (index + 1) % 2 ELSE index

\* if (frameInCurrentSlide >= slideFrames) { currentSlideIndex++; ... }
nextSlideIndex(advance, index) == IF advance THEN index + 1 ELSE index

\* renderSlides: one iteration of while (currentFrame < totalFrames), the wait
\* included; delay is the time the iteration takes before it reads the clock
renderSlides_frame ==
  /\ pc = "render"
  /\ \E delay \in {0, MaxJitter} :
       /\ delay > 0 => now <= startTime + currentFrame * frameDuration + MaxLate
       /\ LET advance == frameInCurrentSlide >= slideData[currentSlideIndex + 1]
              idx == nextSlideIndex(advance, currentSlideIndex)
              fin == IF advance THEN 0 ELSE frameInCurrentSlide
              target == frameTargetTime(startTime, currentFrame, now)
              waitTime == target - (now + delay)
          IN IF advance /\ idx >= Len(slideData)
             THEN \* break
                  /\ currentSlideIndex' = idx
                  /\ frameInCurrentSlide' = fin
                  /\ pc' = "stop"
                  /\ UNCHANGED << currentFrame, drawn, framesDrawn, targetTime, yielded, now,
                                  progressEvents >>
             ELSE /\ currentSlideIndex' = idx
                  /\ progressEvents' =
                       IF advance
                       THEN Append(progressEvents, compilerProgress(
                              Progress("rendering", idx + 1, Len(slides),
                                       Round(currentFrame * 100, totalFrames))))
                       ELSE progressEvents
                  /\ drawn' = [frame |-> currentFrame, slide |-> idx]
                  /\ framesDrawn' = framesDrawn + 1
                  /\ targetTime' = target
                  /\ yielded' = (waitTime > 0)
                  /\ now' = IF waitTime > 0 THEN target ELSE now + delay
                  /\ currentFrame' = currentFrame + 1
                  /\ frameInCurrentSlide' = fin + 1
                  /\ pc' = IF currentFrame' < totalFrames THEN "render" ELSE "stop"
  /\ UNCHANGED << envVars, appVars, combineResults, chunkVars, genVars, error, audioContext, mimeType, combinedAudio, recVars,
                  slideData, totalFrames, startTime, videoBlob, delivered >>

\* compile: mediaRecorder.stop(); audioSource.stop(); ...; await recordingPromise.
\* stop() on a recorder an error has already made inactive either does nothing
\* or throws InvalidStateError, depending on the browser.
compile_stopRecording ==
  /\ pc = "stop"
  /\ stopCalls' = stopCalls + 1
  /\ \/ /\ recorder = "recording"
        /\ recorder' = "stopping"
        /\ audioSource' = "stopped"
        /\ progressEvents' = Append(progressEvents, completeProgress(Len(slides)))
        /\ pc' = "await" /\ error' = error
     \/ /\ recorder # "recording"
        /\ recorder' = recorder
        /\ audioSource' = "stopped"
        /\ progressEvents' = Append(progressEvents, completeProgress(Len(slides)))
        /\ pc' = "await" /\ error' = error
     \/ /\ recorder # "recording"
        /\ recorder' = recorder
        /\ audioSource' = audioSource
        /\ progressEvents' = progressEvents
        /\ Fail("InvalidState")
  /\ UNCHANGED << envVars, appVars, combineResults, chunkVars, genVars, audioContext, mimeType, combinedAudio, canvasStream,
                  recordingPromise, startCalls, loopVars, now, videoBlob, delivered >>

\* mutant: compile returns the blob without awaiting the stop event
compile_returnEarly ==
  /\ pc = "await"
  /\ recordingPromise # "rejected"
  /\ videoBlob' = [type |-> mimeType, parts |-> chunks]
  /\ progressEvents' = Append(progressEvents, Progress("complete", Len(slides), Len(slides), 100))
  /\ audioContext' = "closed"
  /\ pc' = "timer"
  /\ UNCHANGED << envVars, appVars, combineResults, chunkVars, genVars, error, mimeType, combinedAudio, recVars, loopVars, now, delivered >>

\* compile returns the resolved blob; startGeneration: compiler.cleanup(),
\* setProgress(complete), setTimeout(onComplete, 1000)
compile_return ==
  /\ pc = "await"
  /\ recordingPromise = "resolved"
  /\ videoBlob' = recordedBlob
  /\ progressEvents' = Append(progressEvents, Progress("complete", Len(slides), Len(slides), 100))
  /\ audioContext' = "closed"
  /\ pc' = "timer"
  /\ UNCHANGED << envVars, appVars, combineResults, chunkVars, genVars, error, mimeType, combinedAudio, recVars, loopVars, now, delivered >>

\* await recordingPromise throws the recorder's error
compile_throw ==
  /\ pc = "await"
  /\ recordingPromise = "rejected"
  /\ Fail("Recorder")
  /\ UNCHANGED << envVars, appVars, combineResults, progressEvents, chunkVars, genVars, audioContext, mimeType, combinedAudio, recVars, loopVars, now,
                  videoBlob, delivered >>

\* the timer of startGeneration: onComplete(videoBlob, updatedSlides), which is
\* App's handleVideoGenerationComplete: finalVideoBlob, setStage('download')
startGeneration_onComplete ==
  /\ pc = "timer"
  /\ delivered' = videoBlob
  /\ projectSlides' = slides
  /\ stage' = "download"
  /\ pc' = "done"
  /\ UNCHANGED << envVars, extracting, reviewSlides, batch, combineResults, progressEvents, chunkVars, slides, slidesState, runs, ttsIndex, calls, errorSlide,
                  cancelRequested, error, audioContext, mimeType, combinedAudio, recVars,
                  loopVars, now, videoBlob >>

\* the run is suspended (or over): the event loop can deliver recorder events
AtAwait ==
  \/ pc \in {"preload", "await", "timer", "done", "failed"}
  \/ pc = "render" /\ yielded

\* mediaRecorder.onerror: reject(new Error(...)); the browser then ends the
\* recording and fires stop
MediaRecorder_onerror ==
  /\ AtAwait
  /\ recorder \in {"recording", "stopping"}
  /\ recorder' = "failing"
  /\ recordingPromise' = settle(recordingPromise, "rejected")
  /\ UNCHANGED << envVars, appVars, combineResults, progressEvents, chunkVars, genVars, pc, error, audioContext, mimeType, combinedAudio, canvasStream,
                  audioSource, startCalls, stopCalls, loopVars, now, videoBlob, delivered >>

\* mutant: every chunk is kept, empty ones included
keepChunkAlways(data) == TRUE

\* if (event.data.size > 0)
keepChunk(data) == data.size > 0

\* mediaRecorder.ondataavailable: chunks.push(event.data) for data that is not
\* empty.  start() is called without a timeslice, so the recorder hands out
\* its data when stop() flushes it, before the stop event.
MediaRecorder_ondataavailable ==
  /\ AtAwait
  /\ recorder = "stopping"
  /\ Len(emitted) < MaxChunks
  /\ \E size \in {0, 1} :
       LET data == [id |-> Len(emitted) + 1, size |-> size]
       IN /\ emitted' = Append(emitted, data)
          /\ chunks' = IF keepChunk(data) THEN Append(chunks, data) ELSE chunks
  /\ UNCHANGED << envVars, appVars, combineResults, progressEvents, genVars, recordedBlob, pc, error, audioContext, mimeType,
                  combinedAudio, recVars, loopVars, now, videoBlob, delivered >>

\* mediaRecorder.onstop: const blob = new Blob(chunks, { type: mimeType });
\* resolve(blob)
MediaRecorder_onstop ==
  /\ AtAwait
  /\ recorder \in {"stopping", "failing"}
  /\ recorder' = IF recorder = "failing" THEN "failed" ELSE "stopped"
  /\ recordingPromise' = settle(recordingPromise, "resolved")
  /\ recordedBlob' = IF recordingPromise' = "resolved"
                     THEN [type |-> mimeType, parts |-> chunks] ELSE recordedBlob
  /\ UNCHANGED << envVars, appVars, combineResults, progressEvents, genVars, emitted, chunks, pc, error, audioContext, mimeType,
                  combinedAudio, canvasStream, audioSource, startCalls, stopCalls,
                  loopVars, now, videoBlob, delivered >>

Next ==
  \/ startGeneration_mount
  \/ Retry
  \/ startGeneration_speechDone
  \/ startGeneration_speechFailed
  \/ startGeneration_rateLimitDelay
  \/ NewVideoCompiler
  \/ compile_loadFirstImage
  \/ compile_negotiate
  \/ compile_combineAudio
  \/ compile_createRecorder
  \/ compile_startRecording
  \/ renderSlides_preload
  \/ renderSlides_frame
  \/ compile_stopRecording
  \/ compile_return
  \/ compile_throw
  \/ startGeneration_onComplete
  \/ MediaRecorder_onerror
  \/ MediaRecorder_ondataavailable
  \/ MediaRecorder_onstop

Spec == Init /\ [][Next]_vars

(* ---------------------------------------------------------------------- *)
(* The run with a cancellation request.  The code has no cancellation      *)
(* signal: no handler sets one and no loop reads one.  Cancel is the       *)
(* request as the specification describes it, raised while the frame loop  *)
(* is suspended in its wait.                                               *)
(* ---------------------------------------------------------------------- *)

Cancel ==
  /\ pc = "render" /\ yielded
  /\ ~cancelRequested
  /\ cancelRequested' = TRUE
  /\ UNCHANGED << envVars, appVars, combineResults, progressEvents, chunkVars, slides, slidesState, stage, runs, ttsIndex, calls, errorSlide,
                  pc, error, audioContext, mimeType, combinedAudio, recVars, loopVars, now,
                  videoBlob, delivered >>

NextCancel ==
  \/ Next
  \/ Cancel

SpecCancel == Init /\ [][NextCancel]_vars

(* ---------------------------------------------------------------------- *)
(* compile called on its own: any slide list, slides without audio         *)
(* included (Slide.audioBuffer is optional)                                *)
(* ---------------------------------------------------------------------- *)

\* a slide of a list handed to compile: no audio (-1), empty audio, half a frame
CompileLengths == {-1, 0, SampleRate \div (2 * fps)}

\* the formats a buffer handed to compile may have: the context's rate or
\* twice that, one or two channels
Formats == [sampleRate : {SampleRate, 2 * SampleRate}, numberOfChannels : {1, 2}]

\* half a frame, or as many samples as the context plays in a second
FormatLengths == {SampleRate \div (2 * fps), SampleRate}

\* the slides sl with buffers of the given formats
WithFormats(sl, formats) ==
  [ i \in 1..Len(sl) |->
      [sl[i] EXCEPT !.audioBuffer.sampleRate = formats[i].sampleRate,
                    !.audioBuffer.numberOfChannels = formats[i].numberOfChannels] ]

\* Lists of up to MaxSlides slides of the context's format, with or without
\* audio, and lists of up to two slides of every format.
InitCompile ==
  /\ \/ \E lengths \in SeqsUpTo(CompileLengths, MaxSlides) : \E bad \in 0..Len(lengths) :
          /\ slides = MakeSlides(lengths, bad)
          /\ speech = lengths
     \/ \E lengths \in SeqsUpTo(FormatLengths, 2) : \E formats \in SeqsUpTo(Formats, 2) :
          /\ Len(formats) = Len(lengths)
          /\ slides = WithFormats(MakeSlides(lengths, 0), formats)
          /\ speech = lengths
  /\ slidesState = slides
  /\ projectSlides = Unsynthesized(slides)
  /\ extracting = {}
  /\ audioConfig = [padding |-> audioPadding, sampleRate |-> SampleRate]
  /\ reviewSlides = << >>
  /\ variantDraws = NoVariantRuns
  /\ batch = NoBatch
  /\ ttsProvider = "lemonfox"
  /\ types = << codecsObject.mp4, codecsObject.webm >>
  /\ supported = Range(types)
  /\ stage = "generate"
  /\ runs = 1
  /\ ttsIndex = 0
  /\ calls = << >>
  /\ errorSlide = 0
  /\ cancelRequested = FALSE
  /\ pc = "new"
  /\ error = Null
  /\ FreshLocals
  /\ delivered = NoBlob

NextCompile ==
  \/ NewVideoCompiler
  \/ compile_loadFirstImage
  \/ compile_negotiate
  \/ compile_combineAudio
  \/ compile_createRecorder
  \/ compile_startRecording
  \/ renderSlides_preload
  \/ renderSlides_frame
  \/ compile_stopRecording
  \/ compile_return
  \/ compile_throw
  \/ MediaRecorder_onerror
  \/ MediaRecorder_ondataavailable
  \/ MediaRecorder_onstop

SpecCompile == InitCompile /\ [][NextCompile]_vars

(* ---------------------------------------------------------------------- *)
(* The application workflow (App.tsx)                                      *)
(* ---------------------------------------------------------------------- *)

\* the documents a user uploads, as the speech lengths of their pages
Documents == SeqsUpTo({SampleRate \div (2 * fps)}, 2)

\* the providers UploadSetup passes to onComplete
UploadProviders == {"lemonfox", "webspeech"}

\* the part of the state the App's handlers do not touch
appFrame ==
  << types, supported, speech, audioConfig, variantDraws, runs, ttsIndex, calls, errorSlide, cancelRequested,
     audioContext, mimeType, combinedAudio, combineResults, progressEvents, chunkVars,
     recVars, loopVars, now >>

\* the slides of a document as extracted: no audio, the script still empty
extractSlides(doc) ==
  [ i \in 1..Len(doc) |-> [Unsynthesized(MakeSlides(doc, 0))[i] EXCEPT !.text = ""] ]

\* the scripts a slide can have: empty, white space only, or some words
Texts == {"", " ", "a"}

\* String.prototype.trim on the scripts above
trim(text) == IF text = " " THEN "" ELSE text

\* mutant: white space counts as a script
canProceedUntrimmed(sl) == \A i \in 1..Len(sl) : sl[i].text # ""

\* ScriptReview: slides.every((s) => s.script && s.script.trim().length > 0)
canProceed(sl) == \A i \in 1..Len(sl) : sl[i].text # "" /\ trim(sl[i].text) # ""

\* the textarea's onChange: handleScriptChange -> updateSlideScript
handleScriptChange ==
  /\ stage = "review"
  /\ \E i \in 1..Len(reviewSlides) : \E text \in Texts :
       /\ i # batch.loading
       /\ reviewSlides' = [reviewSlides EXCEPT ![i].text = text]
  /\ UNCHANGED << appFrame, batch, slides, ttsProvider, projectSlides, extracting, slidesState, stage,
                  pc, error, videoBlob, delivered >>

\* generateScript when the service has answered: an answer that is empty
\* after trim is an error and leaves the slide as it is
generateScript ==
  /\ stage = "review"
  /\ \E i \in 1..Len(reviewSlides) : \E script \in Texts :
       reviewSlides' = IF script = "" \/ trim(script) = "" THEN reviewSlides
                       ELSE [reviewSlides EXCEPT ![i].text = script]
  /\ UNCHANGED << appFrame, batch, slides, ttsProvider, projectSlides, extracting, slidesState, stage,
                  pc, error, videoBlob, delivered >>

\* a loop that would read the scripts as they are when the slide's turn comes
batchScriptsCurrent(snapshot, current) == [ i \in 1..Len(current) |-> current[i].text ]

\* the scripts generateAllScripts' loop tests: `slides` is the state of the
\* render in which the call was made, whatever has been typed since
batchScripts(snapshot, current) == snapshot

\* for (const slide of slides) if (!slide.script): the next slide from index
\* from on that the loop asks a script for, or 0 when the loop is over
nextRequest(scripts, from) ==
  IF \E j \in from..Len(scripts) : scripts[j] = ""
  THEN CHOOSE j \in from..Len(scripts) :
         scripts[j] = "" /\ \A h \in from..(j - 1) : scripts[h] # ""
  ELSE 0

\* generateAllScripts (the mount effect, or the button, disabled while
\* generatingAll) up to its first await
generateAllScripts_start ==
  /\ stage = "review"
  /\ ~batch.active
  /\ LET snapshot == [ i \in 1..Len(reviewSlides) |-> reviewSlides[i].text ]
         first == nextRequest(batchScripts(snapshot, reviewSlides), 1)
     IN batch' = IF first = 0 THEN NoBatch
                 ELSE [active |-> TRUE, loading |-> first, snapshot |-> snapshot]
  /\ UNCHANGED << appFrame, slides, ttsProvider, projectSlides, extracting, reviewSlides,
                  slidesState, stage, pc, error, videoBlob, delivered >>

\* the awaited generateScript of the loop is over (the script is stored unless
\* it is empty after trim), and the loop goes on to its next await or ends
generateAllScripts_next ==
  /\ stage = "review"
  /\ batch.active
  /\ \E script \in Texts :
       reviewSlides' = IF script = "" \/ trim(script) = "" THEN reviewSlides
                       ELSE [reviewSlides EXCEPT ![batch.loading].text = script]
  /\ LET next == nextRequest(batchScripts(batch.snapshot, reviewSlides'), batch.loading + 1)
     IN batch' = IF next = 0 THEN NoBatch ELSE [batch EXCEPT !.loading = next]
  /\ UNCHANGED << appFrame, slides, ttsProvider, projectSlides, extracting, slidesState, stage,
                  pc, error, videoBlob, delivered >>

\* UploadSetup's handleSubmit calls onComplete: handleUploadComplete runs to
\* its await PDFService.extractSlides(file); the Upload view stays mounted
handleUploadComplete_start ==
  /\ stage = "upload"
  /\ Cardinality(extracting) < MaxUploads
  /\ \E doc \in Documents : \E provider \in UploadProviders :
       /\ [doc |-> doc, provider |-> provider] \notin extracting
       /\ extracting' = extracting \cup {[doc |-> doc, provider |-> provider]}
  /\ UNCHANGED << appFrame, batch, slides, ttsProvider, projectSlides, reviewSlides, slidesState,
                  stage, pc, error, videoBlob, delivered >>

\* extractSlides resolved: setProject({ ..., slides, finalVideoBlob: null }),
\* setStage('review')
handleUploadComplete_resolved ==
  /\ \E u \in extracting :
       /\ extracting' = extracting \ {u}
       /\ projectSlides' = extractSlides(u.doc)
       /\ ttsProvider' = u.provider
  /\ reviewSlides' = IF stage = "review" THEN reviewSlides ELSE projectSlides'
  /\ batch' = IF stage = "review" THEN batch ELSE NoBatch
  /\ delivered' = NoBlob
  /\ stage' = "review"
  /\ UNCHANGED << appFrame, slides, slidesState, pc, error, videoBlob >>

\* extractSlides rejected: setError(...), the stage is left as it is
handleUploadComplete_rejected ==
  /\ \E u \in extracting : extracting' = extracting \ {u}
  /\ UNCHANGED << appFrame, batch, slides, ttsProvider, projectSlides, reviewSlides, slidesState, stage, pc, error,
                  videoBlob, delivered >>

\* ScriptReview's onComplete(slides): setProject, setStage('generate');
\* VideoGeneration is mounted with project.slides
handleScriptReviewComplete ==
  /\ stage = "review"
  /\ canProceed(reviewSlides)
  /\ projectSlides' = reviewSlides
  /\ stage' = "generate"
  /\ slidesState' = projectSlides'
  /\ slides' = projectSlides'
  /\ pc' = "mount"
  /\ error' = Null
  /\ videoBlob' = NoBlob
  /\ UNCHANGED << appFrame, batch, ttsProvider, extracting, reviewSlides, delivered >>

\* ScriptReview's onBack
handleBackToUpload ==
  /\ stage = "review"
  /\ stage' = "upload"
  /\ UNCHANGED << appFrame, batch, slides, ttsProvider, projectSlides, extracting, reviewSlides, slidesState, pc, error,
                  videoBlob, delivered >>

\* a run of startGeneration (by the mount effect or by Retry) taken as one
\* step: it ends with the timer for onComplete set, or with the error shown
VideoGeneration_run ==
  /\ stage = "generate"
  /\ pc \in {"mount", "failed"}
  /\ \/ /\ ttsProvider # "webspeech"
        /\ pc' = "timer"
        /\ error' = Null
        /\ videoBlob' = [type |-> codecsObject.mp4, parts |-> << 1 >>]
     \/ /\ pc' = "failed"
        /\ error' = IF ttsProvider = "webspeech" THEN "WebSpeech" ELSE "Synthesis"
        /\ videoBlob' = NoBlob
  /\ UNCHANGED << appFrame, batch, slides, ttsProvider, projectSlides, extracting, reviewSlides, slidesState, stage,
                  delivered >>

\* VideoGeneration's onBack, the Back button of its error block
handleBackToReview ==
  /\ stage = "generate"
  /\ error # Null
  /\ stage' = "review"
  /\ reviewSlides' = projectSlides
  /\ batch' = NoBatch
  /\ pc' = "done"
  /\ error' = Null
  /\ UNCHANGED << appFrame, slides, ttsProvider, projectSlides, extracting, slidesState, videoBlob,
                  delivered >>

\* Download's onStartOver; Download is rendered when stage === 'download' &&
\* project.finalVideoBlob
handleStartOver ==
  /\ stage = "download"
  /\ delivered # NoBlob
  /\ projectSlides' = << >>
  /\ delivered' = NoBlob
  /\ ttsProvider' = "webspeech"
  /\ stage' = "upload"
  /\ UNCHANGED << appFrame, batch, slides, extracting, reviewSlides, slidesState, pc, error, videoBlob >>

InitApp ==
  /\ stage = "upload"
  /\ projectSlides = << >>
  /\ ttsProvider = "webspeech"
  /\ delivered = NoBlob
  /\ extracting = {}
  /\ audioConfig = [padding |-> audioPadding, sampleRate |-> SampleRate]
  /\ reviewSlides = << >>
  /\ variantDraws = NoVariantRuns
  /\ batch = NoBatch
  /\ speech = << >>
  /\ types = << codecsObject.mp4, codecsObject.webm >>
  /\ supported = Range(types)
  /\ slides = << >>
  /\ slidesState = << >>
  /\ runs = 0
  /\ ttsIndex = 0
  /\ calls = << >>
  /\ errorSlide = 0
  /\ cancelRequested = FALSE
  /\ pc = "done"
  /\ error = Null
  /\ FreshLocals

NextApp ==
  \/ handleUploadComplete_start
  \/ handleUploadComplete_resolved
  \/ handleUploadComplete_rejected
  \/ generateScript
  \/ handleScriptChange
  \/ generateAllScripts_start
  \/ generateAllScripts_next
  \/ handleScriptReviewComplete
  \/ handleBackToUpload
  \/ VideoGeneration_run
  \/ startGeneration_onComplete
  \/ handleBackToReview
  \/ handleStartOver

SpecApp == InitApp /\ [][NextApp]_vars

\* combineAudio applied to the slides of a compiler that is ready for it
combineAudio_call ==
  /\ pc = "combine"
  /\ Len(combineResults) < MaxCombineCalls
  /\ IF combineAudioError(slides) # Null
     THEN Fail(combineAudioError(slides)) /\ UNCHANGED << combinedAudio, combineResults >>
     ELSE /\ combinedAudio' = combineAudio(slides)
          /\ combineResults' = Append(combineResults, combinedAudio')
          /\ UNCHANGED << pc, error >>
  /\ UNCHANGED << envVars, appVars, progressEvents, chunkVars, genVars, audioContext, mimeType, recVars,
                  loopVars, now, videoBlob, delivered >>

InitCombine ==
  /\ \/ \E lengths \in SeqsUpTo(CompileLengths, MaxSlides) :
          /\ slides = MakeSlides(lengths, 0)
          /\ speech = lengths
     \/ \E lengths \in SeqsUpTo(FormatLengths, 2) : \E formats \in SeqsUpTo(Formats, 2) :
          /\ Len(formats) = Len(lengths)
          /\ slides = WithFormats(MakeSlides(lengths, 0), formats)
          /\ speech = lengths
  /\ slidesState = slides
  /\ projectSlides = Unsynthesized(slides)
  /\ extracting = {}
  /\ audioConfig = [padding |-> audioPadding, sampleRate |-> SampleRate]
  /\ reviewSlides = << >>
  /\ variantDraws = NoVariantRuns
  /\ batch = NoBatch
  /\ ttsProvider = "lemonfox"
  /\ types = << codecsObject.mp4, codecsObject.webm >>
  /\ supported = Range(types)
  /\ stage = "generate"
  /\ runs = 1
  /\ ttsIndex = 0
  /\ calls = << >>
  /\ errorSlide = 0
  /\ cancelRequested = FALSE
  /\ error = Null
  /\ pc = "combine"
  /\ audioContext = "open"
  /\ mimeType = getSupportedMimeType(types, supported)
  /\ combinedAudio = [length |-> 0, offsets |-> << >>]
  /\ combineResults = << >>
  /\ canvasStream = FALSE
  /\ audioSource = "none"
  /\ recorder = "none"
  /\ recordingPromise = "none"
  /\ progressEvents = << >>
  /\ emitted = << >>
  /\ chunks = << >>
  /\ recordedBlob = NoBlob
  /\ startCalls = 0
  /\ stopCalls = 0
  /\ slideData = << >>
  /\ totalFrames = 0
  /\ currentFrame = 0
  /\ currentSlideIndex = 0
  /\ frameInCurrentSlide = 0
  /\ drawn = NoFrame
  /\ framesDrawn = 0
  /\ now = 0
  /\ startTime = 0
  /\ targetTime = 0
  /\ yielded = FALSE
  /\ videoBlob = NoBlob
  /\ delivered = NoBlob

NextCombine == combineAudio_call

SpecCombine == InitCombine /\ [][NextCombine]_vars

(* ---------------------------------------------------------------------- *)
(* combineAudio's sample arithmetic, for every padding and sample rate     *)
(* ---------------------------------------------------------------------- *)

\* audioPadding values (ms)
PaddingsMs == {0, 1, audioPadding}

\* audioContext.sampleRate values (Hz)
SampleRates == {SampleRate, 44100, 48000}

\* totalSamples = Math.ceil(totalDuration * sampleRate) for buffers of the
\* context's rate (duration * sampleRate is the buffer's length), padding in
\* ms: the sum is kept in thousandths of a sample
RECURSIVE totalScaledFor(_, _, _, _)
totalScaledFor(sl, i, padding, rate) ==
  IF i > Len(sl) THEN 0
  ELSE (IF sl[i].audioBuffer.present THEN sl[i].audioBuffer.length * 1000 + padding * rate
        ELSE 0)
       + totalScaledFor(sl, i + 1, padding, rate)

totalSamplesFor(sl, padding, rate) == CeilDiv(totalScaledFor(sl, 1, padding, rate), 1000)

\* offset += slide.audioBuffer.length + Math.ceil(paddingSeconds * sampleRate)
RECURSIVE copyOffsetFor(_, _, _, _)
copyOffsetFor(sl, i, padding, rate) ==
  IF i <= 1 THEN 0
  ELSE copyOffsetFor(sl, i - 1, padding, rate)
       + (IF sl[i - 1].audioBuffer.present
          THEN sl[i - 1].audioBuffer.length + CeilDiv(padding * rate, 1000) ELSE 0)

\* targetData.set(sourceData, offset) has a source that does not fit
copyOverruns(sl, padding, rate) ==
  \E i \in 1..Len(sl) :
    /\ sl[i].audioBuffer.present
    /\ copyOffsetFor(sl, i, padding, rate) + sl[i].audioBuffer.length
         > totalSamplesFor(sl, padding, rate)

\* combineAudio on slides of the context's rate, with the configured padding
combineAudio_sized ==
  /\ pc = "combine"
  /\ LET padding == audioConfig.padding
         rate == audioConfig.sampleRate
     IN IF totalSamplesFor(slides, padding, rate) = 0
        THEN Fail("NotSupported") /\ UNCHANGED << combinedAudio, combineResults >>
        ELSE IF copyOverruns(slides, padding, rate)
        THEN Fail("Range") /\ UNCHANGED << combinedAudio, combineResults >>
        ELSE /\ combinedAudio' =
                  [ length |-> totalSamplesFor(slides, padding, rate),
                    offsets |-> [ i \in 1..Len(slides) |->
                                    copyOffsetFor(slides, i, padding, rate) ] ]
             /\ combineResults' = Append(combineResults, combinedAudio')
             /\ pc' = "createRecorder"
             /\ error' = error
  /\ UNCHANGED << envVars, appVars, progressEvents, chunkVars, genVars, audioContext, mimeType,
                  recVars, loopVars, now, videoBlob, delivered >>

\* a compiler that is ready for combineAudio, for every padding and rate and
\* for 1 to MaxBatch slides of one length, with audio of the context's rate
InitSized ==
  /\ \E padding \in PaddingsMs : \E rate \in SampleRates :
     \E n \in 1..MaxBatch : \E length \in {0, rate \div 100} :
       /\ audioConfig = [padding |-> padding, sampleRate |-> rate]
       /\ speech = [ i \in 1..n |-> length ]
       /\ slides = [ i \in 1..n |->
                      [MakeSlides(speech, 0)[i] EXCEPT !.audioBuffer.sampleRate = rate] ]
  /\ slidesState = slides
  /\ projectSlides = Unsynthesized(slides)
  /\ extracting = {}
  /\ reviewSlides = << >>
  /\ variantDraws = NoVariantRuns
  /\ batch = NoBatch
  /\ ttsProvider = "lemonfox"
  /\ types = << codecsObject.mp4, codecsObject.webm >>
  /\ supported = Range(types)
  /\ stage = "generate"
  /\ runs = 1
  /\ ttsIndex = 0
  /\ calls = << >>
  /\ errorSlide = 0
  /\ cancelRequested = FALSE
  /\ error = Null
  /\ pc = "combine"
  /\ audioContext = "open"
  /\ mimeType = getSupportedMimeType(types, supported)
  /\ combinedAudio = [length |-> 0, offsets |-> << >>]
  /\ combineResults = << >>
  /\ canvasStream = FALSE
  /\ audioSource = "none"
  /\ recorder = "none"
  /\ recordingPromise = "none"
  /\ progressEvents = << >>
  /\ emitted = << >>
  /\ chunks = << >>
  /\ recordedBlob = NoBlob
  /\ startCalls = 0
  /\ stopCalls = 0
  /\ slideData = << >>
  /\ totalFrames = 0
  /\ currentFrame = 0
  /\ currentSlideIndex = 0
  /\ frameInCurrentSlide = 0
  /\ drawn = NoFrame
  /\ framesDrawn = 0
  /\ now = 0
  /\ startTime = 0
  /\ targetTime = 0
  /\ yielded = FALSE
  /\ videoBlob = NoBlob
  /\ delivered = NoBlob

NextSized == combineAudio_sized

SpecSized == InitSized /\ [][NextSized]_vars

(* ---------------------------------------------------------------------- *)
(* renderSlides on its own, for every padding                              *)
(* ---------------------------------------------------------------------- *)

\* the values of API_CONFIG.video.audioPadding the frame loop is run with (ms)
Paddings == {0, audioPadding}

\* the narration lengths the frame loop is run with (ms): none, and one that
\* takes a single frame
Durations == {0, 1000 \div fps}

\* slideFrames = Math.ceil(slideDuration * fps), durations and padding in ms
framesFor(duration, padding) == CeilDiv((duration + padding) * fps, 1000)

\* the first frame index of slide i (1-based) in a list of frame counts
firstFrame(data, i) == SumSeq(data, 1) - SumSeq(data, i)

\* renderSlides after its images are loaded and totalFrames is computed
InitRender ==
  /\ \E padding \in Paddings : \E durations \in SeqsUpTo(Durations, MaxSlides) :
       /\ speech = [ i \in 1..Len(durations) |-> durations[i] * (SampleRate \div 1000) ]
       /\ slides = MakeSlides(speech, 0)
       /\ slideData = [ i \in 1..Len(durations) |-> framesFor(durations[i], padding) ]
  /\ Len(slides) >= 1
  /\ totalFrames = SumSeq(slideData, 1)
  /\ pc = IF totalFrames > 0 THEN "render" ELSE "stop"
  /\ slidesState = slides
  /\ projectSlides = Unsynthesized(slides)
  /\ extracting = {}
  /\ audioConfig = [padding |-> audioPadding, sampleRate |-> SampleRate]
  /\ reviewSlides = << >>
  /\ variantDraws = NoVariantRuns
  /\ batch = NoBatch
  /\ ttsProvider = "lemonfox"
  /\ types = << codecsObject.mp4, codecsObject.webm >>
  /\ supported = Range(types)
  /\ stage = "generate"
  /\ runs = 1
  /\ ttsIndex = 0
  /\ calls = << >>
  /\ errorSlide = 0
  /\ cancelRequested = FALSE
  /\ error = Null
  /\ audioContext = "open"
  /\ mimeType = getSupportedMimeType(types, supported)
  /\ combinedAudio = [length |-> 0, offsets |-> << >>]
  /\ combineResults = << >>
  /\ canvasStream = TRUE
  /\ audioSource = "playing"
  /\ recorder = "recording"
  /\ recordingPromise = "pending"
  /\ progressEvents = << >>
  /\ emitted = << >>
  /\ chunks = << >>
  /\ recordedBlob = NoBlob
  /\ startCalls = 1
  /\ stopCalls = 0
  /\ currentFrame = 0
  /\ currentSlideIndex = 0
  /\ frameInCurrentSlide = 0
  /\ drawn = NoFrame
  /\ framesDrawn = 0
  /\ now = 0
  /\ startTime = 0
  /\ targetTime = 0
  /\ yielded = FALSE
  /\ videoBlob = NoBlob
  /\ delivered = NoBlob

NextRender == renderSlides_frame

SpecRender == InitRender /\ [][NextRender]_vars

\* n copies of x
Repeat(x, n) == [ k \in 1..n |-> x ]

\* the per-slide renderSlides: for (let i ...) { slideFrames = Math.ceil(
\* slideDuration * fps); image = await this.loadImage(...); startTime =
\* performance.now(); for (let frame = 0; frame < slideFrames; frame++)
\* drawImage(image) }. The slide indices drawn (0-based) from slide i on,
\* after `draws`; a failed image load rejects and ends the function.
RECURSIVE renderSlides_perSlideRestart(_, _, _)
renderSlides_perSlideRestart(slideList, i, draws) ==
  IF i > Len(slideList) THEN [ran |-> TRUE, draws |-> draws, error |-> Null]
  ELSE IF ~slideList[i].imageOk
       THEN [ran |-> TRUE, draws |-> draws, error |-> "ImageLoad"]
       ELSE renderSlides_perSlideRestart(slideList, i + 1,
              draws \o Repeat(i - 1, slideFrames(slideList[i])))

\* the fixed-sleep renderSlides counts a slide's frames as
\* Math.ceil((slideDuration * 1000) / frameDuration), frameDuration = 1000 / fps:
\* milliseconds * fps / 1000, the quotient taken exactly
slideFramesByFrameDuration(slide) ==
  CeilDiv((IF slide.audioBuffer.present THEN paddedScaled(slide)
           ELSE audioPadding * SampleRate) * fps,
          1000 * SampleRate)

\* the fixed-sleep renderSlides: for (let i ...) { image = await
\* this.loadImage(...); for (let frame = 0; frame < slideFrames; frame++) {
\* drawImage(image); await this.waitForFrame(frameDuration) } }
RECURSIVE renderSlides_fixedSleep(_, _, _)
renderSlides_fixedSleep(slideList, i, draws) ==
  IF i > Len(slideList) THEN [ran |-> TRUE, draws |-> draws, error |-> Null]
  ELSE IF ~slideList[i].imageOk
       THEN [ran |-> TRUE, draws |-> draws, error |-> "ImageLoad"]
       ELSE renderSlides_fixedSleep(slideList, i + 1,
              draws \o Repeat(i - 1, slideFramesByFrameDuration(slideList[i])))

\* the automatic-capture renderSlides, its frame loop: while (currentFrame <
\* totalFrames) { if (frameInCurrentSlide >= frames) { currentSlideIndex++;
\* frameInCurrentSlide = 0; if (currentSlideIndex >= slideData.length) break }
\* drawImage(slideData[currentSlideIndex].image); currentFrame++;
\* frameInCurrentSlide++ }
RECURSIVE autoCapture_frames(_, _, _, _, _)
autoCapture_frames(data, frame, index, inSlide, draws) ==
  IF frame >= SumSeq(data, 1) THEN draws
  ELSE LET advance == inSlide >= data[index + 1]
           idx == IF advance THEN index + 1 ELSE index
           fin == IF advance THEN 0 ELSE inSlide
       IN IF advance /\ idx >= Len(data) THEN draws
          ELSE autoCapture_frames(data, frame + 1, idx, fin + 1, Append(draws, idx))

\* the automatic-capture renderSlides: every image is loaded (and every frame
\* count taken, Math.ceil(slideDuration * fps)) before the first frame is drawn
renderSlides_autoCapture(slideList) ==
  IF \E i \in 1..Len(slideList) : ~slideList[i].imageOk
  THEN [ran |-> TRUE, draws |-> << >>, error |-> "ImageLoad"]
  ELSE [ran |-> TRUE, error |-> Null,
        draws |-> autoCapture_frames([ i \in 1..Len(slideList) |-> slideFrames(slideList[i]) ],
                                     0, 0, 0, << >>)]

\* what variant v draws for a list of slides
renderSlidesOf(v, slideList) ==
  CASE v = "perSlideRestart" -> renderSlides_perSlideRestart(slideList, 1, << >>)
    [] v = "fixedSleep" -> renderSlides_fixedSleep(slideList, 1, << >>)
    [] v = "autoCapture" -> renderSlides_autoCapture(slideList)

\* one of the earlier renderSlides is called with the slides compile was given
renderSlides_variant(v) ==
  /\ ~variantDraws[v].ran
  /\ variantDraws' = [variantDraws EXCEPT ![v] = renderSlidesOf(v, slides)]
  /\ UNCHANGED << types, supported, ttsProvider, speech, audioConfig, genVars, appVars,
                  chunkVars, recVars, loopVars, pc, error, audioContext, mimeType,
                  combinedAudio, combineResults, progressEvents, now, videoBlob, delivered >>

renderSlides_part005 == renderSlides_variant("perSlideRestart")
renderSlides_part006 == renderSlides_variant("fixedSleep")
renderSlides_part007 == renderSlides_variant("autoCapture")

\* audio lengths for the comparison: empty audio and half a frame of audio,
\* which take 12 and 13 frames with the configured padding
VariantLengths == {0, SampleRate \div (2 * fps)}

\* compile has loaded the first image and started the recorder; renderSlides
\* is about to be called with slides whose later images may fail to load
InitVariants ==
  /\ \E lengths \in SeqsUpTo(VariantLengths, MaxSlides) : \E bad \in 0..MaxSlides :
       /\ bad # 1
       /\ Len(lengths) >= 1
       /\ speech = lengths
       /\ slides = MakeSlides(lengths, bad)
  /\ variantDraws = NoVariantRuns
  /\ slideData = << >>
  /\ totalFrames = 0
  /\ pc = "preload"
  /\ slidesState = slides
  /\ projectSlides = Unsynthesized(slides)
  /\ extracting = {}
  /\ audioConfig = [padding |-> audioPadding, sampleRate |-> SampleRate]
  /\ reviewSlides = << >>
  /\ batch = NoBatch
  /\ ttsProvider = "lemonfox"
  /\ types = << codecsObject.mp4, codecsObject.webm >>
  /\ supported = Range(types)
  /\ stage = "generate"
  /\ runs = 1
  /\ ttsIndex = 0
  /\ calls = << >>
  /\ errorSlide = 0
  /\ cancelRequested = FALSE
  /\ error = Null
  /\ audioContext = "open"
  /\ mimeType = getSupportedMimeType(types, supported)
  /\ combinedAudio = [length |-> 0, offsets |-> << >>]
  /\ combineResults = << >>
  /\ canvasStream = TRUE
  /\ audioSource = "playing"
  /\ recorder = "recording"
  /\ recordingPromise = "pending"
  /\ progressEvents = << >>
  /\ emitted = << >>
  /\ chunks = << >>
  /\ recordedBlob = NoBlob
  /\ startCalls = 1
  /\ stopCalls = 0
  /\ currentFrame = 0
  /\ currentSlideIndex = 0
  /\ frameInCurrentSlide = 0
  /\ drawn = NoFrame
  /\ framesDrawn = 0
  /\ now = 0
  /\ startTime = 0
  /\ targetTime = 0
  /\ yielded = FALSE
  /\ videoBlob = NoBlob
  /\ delivered = NoBlob


NextVariants ==
  \/ renderSlides_preload
  \/ renderSlides_frame
  \/ renderSlides_part005
  \/ renderSlides_part006
  \/ renderSlides_part007

SpecVariants == InitVariants /\ [][NextVariants]_vars

\* the steps of compile itself: code that runs to its next await, and the
\* continuations of its awaits (image loads, the frame loop's timers)
compileSteps ==
  \/ NewVideoCompiler
  \/ compile_loadFirstImage
  \/ compile_negotiate
  \/ compile_combineAudio
  \/ compile_createRecorder
  \/ compile_startRecording
  \/ renderSlides_preload
  \/ renderSlides_frame
  \/ compile_stopRecording
  \/ compile_return
  \/ compile_throw

\* compile under the event loop's scheduling: a continuation that is ready is
\* run, and a recorder that was stopped fires its stop event; nothing obliges
\* the recorder to fail or to deliver data
FairSpecCompile ==
  /\ SpecCompile
  /\ WF_vars(compileSteps)
  /\ WF_vars(MediaRecorder_onstop)

TypeOK ==
  /\ pc \in {"mount", "tts", "ttsDelay", "new", "loadFirst", "negotiate", "combine", "createRecorder", "start",
             "preload", "render", "stop", "await", "timer", "done", "failed"}
  /\ audioContext \in {"none", "open", "closed"}
  /\ audioSource \in {"none", "created", "playing", "stopped"}
  /\ recorder \in {"none", "inactive", "recording", "stopping", "stopped", "failing", "failed"}
  /\ recordingPromise \in {"none", "pending", "resolved", "rejected"}
  /\ currentFrame \in 0..totalFrames
  /\ framesDrawn = currentFrame

(* ---------------------------------------------------------------------- *)
(* Claims                                                                  *)
(* ---------------------------------------------------------------------- *)

AllHaveAudio == \A i \in 1..Len(slides) : slides[i].audioBuffer.present

RECURSIVE SumLengths(_, _)
SumLengths(sl, i) == IF i > Len(sl) THEN 0 ELSE sl[i].audioBuffer.length + SumLengths(sl, i + 1)

\* the spec's totalDurationSeconds = sum of durations + padding * (N - 1),
\* times sampleRate * 1000
specTotalScaled(sl) == SumLengths(sl, 1) * 1000 + audioPadding * SampleRate * (Len(sl) - 1)

\* the frame loop has run to its end
RenderDone == stopCalls = 1

\* C1: for a non-empty slide list whose slides all have audio, renderSlides
\* draws exactly ceil(totalDurationSeconds * fps) frames, totalDurationSeconds =
\* sum of the durations + padding * (N - 1)  (204 frames for scenario A).
C1_FrameCount ==
  (RenderDone /\ Len(slides) >= 1 /\ AllHaveAudio)
    => framesDrawn = CeilDiv(specTotalScaled(slides) * fps, 1000 * SampleRate)

\* frame f (at f / fps seconds) lies in slide i's interval of the composite track
InAudioInterval(f, i) ==
  /\ combinedAudio.offsets[i] * fps <= f * SampleRate
  /\ f * SampleRate < (combinedAudio.offsets[i] + slides[i].audioBuffer.length) * fps

\* slide i's audio has ended by frame f
EndedBy(f, i) ==
  (combinedAudio.offsets[i] + slides[i].audioBuffer.length) * fps <= f * SampleRate

\* the slide (1-based) the audio timeline shows at frame f: the slide whose
\* interval contains f / fps, or in a gap the slide that ended last
audibleSlide(f) ==
  IF \E i \in 1..Len(slides) : InAudioInterval(f, i)
  THEN CHOOSE i \in 1..Len(slides) : InAudioInterval(f, i)
  ELSE CHOOSE i \in 1..Len(slides) :
         /\ EndedBy(f, i)
         /\ \A j \in 1..Len(slides) : EndedBy(f, j) => j <= i

\* C2: every frame the loop draws shows the slide whose audio interval in the
\* composite track contains the frame's time, or the preceding slide in a
\* padding gap.
C2_FrameMatchesAudio ==
  (drawn.frame >= 0 /\ AllHaveAudio) => drawn.slide + 1 = audibleSlide(drawn.frame)

\* C3: the composite buffer has exactly ceil(totalDurationSeconds * sampleRate)
\* samples, totalDurationSeconds = sum of the durations + P * (N - 1).
C3_CompositeLength ==
  (pc = "createRecorder" /\ Len(slides) >= 1 /\ AllHaveAudio)
    => combinedAudio.length = CeilDiv(specTotalScaled(slides), 1000)

\* C4: after drawing frame f the loop waits for the absolute target
\* startTime + (f + 1) * frameDuration, whatever the earlier iterations took:
\* the target of every wait is a function of the session start and the frame
\* index alone, the loop is never ahead of it, and a frame that did wait
\* resumes exactly on it.
C4_AbsoluteTarget ==
  (pc \in {"render", "stop"} /\ framesDrawn > 0)
    => /\ targetTime = startTime + currentFrame * frameDuration
       /\ now >= targetTime
       /\ yielded => now = targetTime

\* a frame drawn behind schedule, after a delayed iteration
C4_Witness ==
  pc = "render" /\ framesDrawn > 1 /\ ~yielded /\ now > targetTime

NoneSupported == \A i \in 1..Len(types) : types[i] \notin supported

IsFirstSupported(t) ==
  \E i \in 1..Len(types) :
    /\ types[i] = t
    /\ t \in supported
    /\ \A j \in 1..(i - 1) : types[j] \notin supported

\* C5: negotiation yields the first candidate, in priority order, that the
\* runtime supports; with [X, Y, Z] and only Z supported it yields Z; with no
\* candidate supported the run fails with the no-supported-codec error (when
\* it gets as far as the negotiation: synthesis and the first image come first).
C5_FirstSupported ==
  /\ mimeType # Null => IsFirstSupported(mimeType)
  /\ pc \in {"combine", "createRecorder", "start", "preload", "render", "stop",
             "await", "timer", "done"} => mimeType # Null
  /\ (pc = "combine" /\ types = codecsList /\ supported = {codecsList[3]})
       => mimeType = codecsList[3]
  /\ (pc = "failed" /\ error = "NoCodec") <=>
       (/\ pc = "failed" /\ error \notin {"WebSpeech", "Synthesis"}
        /\ NoneSupported /\ Len(slides) >= 1 /\ slides[1].imageOk)

\* scenario B: three candidates, only the last one supported
C5_Witness ==
  /\ pc = "combine"
  /\ types = codecsList
  /\ supported = {codecsList[3]}
  /\ mimeType = codecsList[3]

\* C6: when no candidate is supported, no capture stream, audio source or
\* MediaRecorder is ever created, the recorder is never started, no frame of
\* the loop is drawn and no artifact is returned or passed to onComplete.
C6_NoCodecNoResources ==
  NoneSupported =>
    /\ pc \in {"mount", "tts", "ttsDelay", "new", "loadFirst", "negotiate", "failed"}
    /\ ~canvasStream
    /\ audioSource = "none"
    /\ recorder = "none"
    /\ recordingPromise = "none"
    /\ startCalls = 0
    /\ framesDrawn = 0
    /\ videoBlob = NoBlob
    /\ delivered = NoBlob

C6_Witness == NoneSupported /\ pc = "failed" /\ error = "NoCodec"

\* the spec's session states, by the position of the run
sessionState ==
  CASE pc \in {"mount", "tts", "ttsDelay", "new", "loadFirst"} -> "Idle"
    [] pc \in {"negotiate", "combine", "createRecorder", "start"} -> "NegotiatingCodec"
    [] pc \in {"preload", "render", "stop"} -> "Recording"
    [] pc = "await" -> "Finalizing"
    [] pc \in {"timer", "done"} -> "Complete"
    [] pc = "failed" -> "Failed"

sessionRank(st) ==
  CASE st = "Idle" -> 0
    [] st = "NegotiatingCodec" -> 1
    [] st = "Recording" -> 2
    [] st = "Finalizing" -> 3
    [] st \in {"Complete", "Failed"} -> 4

\* C7: the session only moves forward through Idle, NegotiatingCodec,
\* Recording, Finalizing and then Complete or Failed; the recorder is started
\* at most once and stopped at most once, stop is never called before start,
\* and once the run is Complete or Failed nothing is started again (a Retry
\* begins another run, with a session of its own that has started nothing).
C7_SessionForward ==
  [][ /\ \/ runs' = runs + 1 /\ startCalls' = 0 /\ stopCalls' = 0
         \/ /\ runs' = runs
            /\ sessionRank(sessionState') >= sessionRank(sessionState)
            /\ sessionState \in {"Complete", "Failed"} =>
                 (sessionState' = sessionState /\ startCalls' = startCalls /\ stopCalls' = stopCalls)
      /\ startCalls' <= 1
      /\ stopCalls' <= startCalls'
      /\ startCalls' > startCalls => sessionState = "NegotiatingCodec" /\ sessionState' = "Recording"
      /\ stopCalls' > stopCalls => sessionState = "Recording"
    ]_vars

C7_Witness == sessionState = "Complete" /\ startCalls = 1 /\ stopCalls = 1

\* C8: in a run that succeeds the order is negotiation, recorder start, every
\* frame of the loop, recorder stop, delivery: no loop frame is drawn before
\* start or after stop, and the artifact is returned only after the stop event.
C8_StepOrder ==
  /\ startCalls >= 1 => mimeType # Null
  /\ framesDrawn > 0 => startCalls = 1
  /\ stopCalls >= 1 => (startCalls = 1 /\ framesDrawn = totalFrames /\ pc \notin {"preload", "render"})
  /\ videoBlob # NoBlob => (stopCalls = 1 /\ recorder = "stopped")
  /\ delivered # NoBlob => delivered = videoBlob
  /\ pc \in {"timer", "done"} => (videoBlob # NoBlob /\ videoBlob.type = mimeType)

C8_Witness ==
  pc = "done" /\ delivered # NoBlob /\ totalFrames > 0 /\ framesDrawn = totalFrames

\* C9: on every exit path of the run the audio context is closed and the
\* recorder and audio source are stopped.
C9_ResourcesReleased ==
  (pc \in {"done", "failed"} /\ audioContext # "none")
    => /\ audioContext = "closed"
       /\ recorder # "recording"
       /\ audioSource # "playing"

\* C10: once the recorder has emitted an error event the run cannot succeed:
\* no blob is returned or passed to onComplete, also when the stop event fires
\* after the error.
C10_ErrorIsFatal ==
  recorder \in {"failing", "failed"} =>
    /\ recordingPromise = "rejected"
    /\ videoBlob = NoBlob
    /\ delivered = NoBlob
    /\ pc \notin {"timer", "done"}
    /\ pc = "failed" => error \in {"Recorder", "InvalidState", "ImageLoad"}

\* the error event, then the stop event, then the run has failed on the rejection
C10_Witness ==
  recorder = "failed" /\ pc = "failed" /\ error = "Recorder" /\ stopCalls = 1

\* a VideoCompiler has been created in this run (compile is called right after)
CompileInvoked == audioContext # "none"

\* C11: when the provider fails for slide i the run is aborted: generateSpeech
\* was called for the slides up to i and for no later one, compile is not
\* invoked, onComplete is not called, and the error names slide i (by its
\* number i + 1).
C11_SynthesisFailureAborts ==
  (pc = "failed" /\ error = "Synthesis") =>
    /\ errorSlide = ttsIndex + 1
    /\ errorSlide \in 1..Len(slides)
    /\ Len(calls) = errorSlide
    /\ \A k \in 1..Len(calls) : calls[k] = slides[k].script
    /\ ~CompileInvoked
    /\ videoBlob = NoBlob
    /\ delivered = NoBlob
    /\ stage = "generate"

\* the provider fails for the second of three slides
C11_Witness ==
  /\ pc = "failed" /\ error = "Synthesis"
  /\ Len(slides) = 3 /\ errorSlide = 2
  /\ slides[1].audioBuffer.present /\ ~slides[3].audioBuffer.present

\* C12: compile is invoked only after synthesis has succeeded for every slide:
\* every slide of the list passed to it has an audio buffer, of a duration
\* >= 0, and generateSpeech has been called once per slide.
C12_CompileAfterSynthesis ==
  CompileInvoked =>
    /\ Len(slides) = Len(slidesState)
    /\ Len(calls) = Len(slides)
    /\ \A i \in 1..Len(slides) :
         slides[i].audioBuffer.present /\ slides[i].audioBuffer.length >= 0

\* compile is running on a list of MaxSlides synthesized slides
C12_Witness ==
  pc = "combine" /\ Len(slides) = MaxSlides /\ Len(calls) = MaxSlides

\* C13: if a slide of the list handed to compile has no audio, compile fails
\* with a missing-audio error: nothing is recorded, no frame is drawn for a
\* silent stretch, and no artifact is returned.
C13_MissingAudioFails ==
  ~AllHaveAudio =>
    /\ startCalls = 0
    /\ framesDrawn = 0
    /\ videoBlob = NoBlob
    /\ pc = "failed" => error \in {"MissingAudio", "TypeError", "ImageLoad", "NoCodec"}

\* C14: once cancellation has been requested during the frame loop, no
\* further frame is drawn, the run does not complete, and when it has failed
\* its error is the cancellation.
C14_CancelStopsLoop ==
  [][ cancelRequested =>
        /\ framesDrawn' = framesDrawn
        /\ pc' \notin {"timer", "done"}
        /\ pc' = "failed" => error' = "Cancelled"
    ]_vars

\* C15: at most one generation run is active per VideoGeneration instance: a
\* run is started only by the mount, once, or by Retry, and Retry only when
\* the previous run has ended with an error.
C15_OneActiveRun ==
  [][ runs' # runs =>
        /\ runs' = runs + 1
        /\ \/ runs = 0 /\ pc = "mount"
           \/ runs > 0 /\ pc = "failed" /\ error # Null
    ]_vars

\* a retried run at work
C15_Witness == runs = 2 /\ pc = "render" /\ error = Null

\* C16: the recorder and the audio source are started in the same stretch of
\* code, with no suspension between the two: in every state the recorder has
\* been started exactly when the audio has, and every wait of renderSlides
\* and every frame comes after both.
C16_StartSameTick ==
  /\ startCalls >= 1 <=> audioSource \in {"playing", "stopped"}
  /\ (slideData # << >> \/ framesDrawn > 0 \/ pc \in {"preload", "render"}) =>
       (startCalls = 1 /\ audioSource \in {"playing", "stopped"})

\* both have just been started, renderSlides is in its first wait
C16_Witness ==
  pc = "preload" /\ slideData = << >> /\ recorder = "recording" /\ audioSource = "playing"

C18_FrameOrder ==
  [][ framesDrawn' # framesDrawn =>
        \/ runs' # runs
        \/ /\ framesDrawn' = framesDrawn + 1
           /\ drawn'.frame = drawn.frame + 1
           /\ drawn'.slide >= drawn.slide
           /\ drawn'.slide \in 0..(Len(slides) - 1)
    ]_vars

\* the loop has moved on to the third slide
C18_Witness == pc = "render" /\ drawn.slide = 2 /\ drawn.frame > 2

\* C19: generateSpeech is called for one slide at a time, in slide order: the
\* call for a slide is issued when every earlier slide of the run has its
\* buffer; the list handed to compile is in slide order and every slide
\* carries the audio synthesized from its own script.
C19_SynthesisInOrder ==
  /\ \A k \in 1..Len(calls) : calls[k] = k /\ slides[k].script = k
  /\ pc \in {"tts", "ttsDelay"} =>
       /\ Len(calls) = ttsIndex + 1
       /\ \A k \in 1..(Len(calls) - 1) :
            slides[k].audioBuffer.present /\ slides[k].audioBuffer.run = runs
  /\ CompileInvoked =>
       \A i \in 1..Len(slides) :
         /\ slides[i].script = i
         /\ slides[i].audioBuffer.present
         /\ slides[i].audioBuffer.script = slides[i].script
         /\ slides[i].audioBuffer.length = speech[slides[i].script]

\* three scripts of three different lengths have reached compile
C19_Witness == pc = "loadFirst" /\ speech = ScenarioA /\ calls = << 1, 2, 3 >>

\* C20: in the composite track slide 0 starts at sample 0, every following
\* slide starts one padding after the end of the slide before it, and the
\* track ends with the last sample of the last slide (no trailing padding).
C20_CompositeLayout ==
  (pc = "createRecorder" /\ Len(slides) >= 1 /\ AllHaveAudio) =>
    /\ combinedAudio.offsets[1] = 0
    /\ \A i \in 1..(Len(slides) - 1) :
         combinedAudio.offsets[i + 1] * 1000 =
           (combinedAudio.offsets[i] + slides[i].audioBuffer.length) * 1000
             + audioPadding * SampleRate
    /\ combinedAudio.length =
         combinedAudio.offsets[Len(slides)] + slides[Len(slides)].audioBuffer.length

\* the condition each error of a run is raised on
FailureCause ==
  CASE error = "WebSpeech" -> ttsProvider = "webspeech"
    [] error = "Synthesis" -> errorSlide > 0
    [] error = "TypeError" -> Len(slides) = 0
    [] error = "ImageLoad" -> \E i \in 1..Len(slides) : ~slides[i].imageOk
    [] error = "NoCodec" -> NoneSupported
    [] error \in {"Recorder", "InvalidState"} -> recorder \in {"failing", "failed"}
    [] OTHER -> FALSE

\* samples of the composite track from the start of slide i to the start of
\* the next slide (to the end of the track for the last slide)
trackShare(i) ==
  (IF i < Len(slides) THEN combinedAudio.offsets[i + 1] ELSE combinedAudio.length)
    - combinedAudio.offsets[i]

\* C21: a slide whose audio has zero duration is valid: no run fails because
\* of it (every failure has one of the other causes), and the slide takes
\* exactly the padding in the composite track and ceil(padding * fps) frames.
C21_ZeroDurationValid ==
  /\ pc = "failed" => FailureCause
  /\ \A i \in 1..Len(slides) :
       (slides[i].audioBuffer.present /\ slides[i].audioBuffer.length = 0) =>
         /\ i <= Len(slideData) => slideData[i] = CeilDiv(audioPadding * fps, 1000)
         /\ i <= Len(combinedAudio.offsets) => trackShare(i) = paddingSamples

\* a run with an empty second slide between two others has delivered its video
C21_Witness ==
  /\ pc = "done" /\ Len(slides) = 3
  /\ slides[2].audioBuffer.length = 0
  /\ slides[1].audioBuffer.length > 0 /\ slides[3].audioBuffer.length > 0
  /\ slideData[2] = 12 /\ framesDrawn = totalFrames

\* C22: compiling an empty slide list fails with the empty-input error, before
\* a capture stream, an audio source or a recorder is created, and returns
\* no artifact.
C22_EmptyInputFails ==
  (CompileInvoked /\ Len(slides) = 0) =>
    /\ pc \in {"loadFirst", "failed"}
    /\ ~canvasStream
    /\ audioSource = "none"
    /\ recorder = "none"
    /\ videoBlob = NoBlob
    /\ pc = "failed" => error = "EmptyInput"

\* two slides of the list differ in sample rate or in channel count
FormatMismatch ==
  \E i, j \in 1..Len(slides) :
    /\ slides[i].audioBuffer.present /\ slides[j].audioBuffer.present
    /\ \/ slides[i].audioBuffer.sampleRate # slides[j].audioBuffer.sampleRate
       \/ slides[i].audioBuffer.numberOfChannels # slides[j].audioBuffer.numberOfChannels

\* C23: when the buffers of the list do not share one sample rate and one
\* channel count, building the composite track fails with the mismatch error:
\* no composite track is built from them and nothing is recorded.
C23_MismatchFails ==
  FormatMismatch =>
    /\ pc \in {"new", "loadFirst", "negotiate", "combine", "failed"}
    /\ startCalls = 0
    /\ videoBlob = NoBlob
    /\ pc = "failed" => error \in {"Mismatch", "ImageLoad", "NoCodec"}

RECURSIVE nonEmpty(_, _)
nonEmpty(data, i) ==
  IF i > Len(data) THEN << >>
  ELSE (IF data[i].size > 0 THEN << data[i] >> ELSE << >>) \o nonEmpty(data, i + 1)

\* C24: the artifact a successful compile returns consists of the non-empty
\* chunks the recorder emitted up to its stop event, all of them, in the
\* order of their arrival, and its MIME type is the negotiated codec string.
C24_ArtifactIsChunks ==
  videoBlob # NoBlob =>
    /\ videoBlob.type = mimeType
    /\ mimeType = getSupportedMimeType(types, supported)
    /\ videoBlob.parts = nonEmpty(emitted, 1)

\* an empty chunk, then a chunk with data: the artifact holds the second only
C24_Witness ==
  /\ pc = "timer"
  /\ Len(emitted) = 2 /\ emitted[1].size = 0 /\ emitted[2].size > 0
  /\ videoBlob.parts = << emitted[2] >>


\* the stages of VideoGenerationProgress
ProgressStages == {"tts", "rendering", "encoding", "complete"}

\* C25: every progress event of a run has a percentage from 0 to 100, a stage
\* of the fixed set, the run's slide count as totalSlides, and a current slide
\* from 0 to totalSlides.
C25_ProgressInRange ==
  \A k \in 1..Len(progressEvents) :
    /\ progressEvents[k].percentage \in 0..100
    /\ progressEvents[k].stage \in ProgressStages
    /\ progressEvents[k].totalSlides = Len(slides)
    /\ progressEvents[k].currentSlide \in 0..progressEvents[k].totalSlides

\* a run of three slides has reported synthesis, a slide change of the frame
\* loop and its completion
C25_Witness ==
  /\ Len(slides) = MaxSlides
  /\ pc = "timer"
  /\ \E k \in 1..Len(progressEvents) :
        progressEvents[k].stage = "tts" /\ progressEvents[k].currentSlide = MaxSlides
  /\ \E k \in 1..Len(progressEvents) :
        /\ progressEvents[k].stage = "rendering"
        /\ progressEvents[k].currentSlide = MaxSlides
        /\ progressEvents[k].percentage > 30
  /\ progressEvents[Len(progressEvents)].stage = "complete"


\* C26: there is no automatic retry and no checkpoint. A failed run makes no
\* provider call and starts no compile; the next run starts only from the
\* failed state (the Retry button), with no slide done and the provider called
\* for slide 0 first; and the slides a run hands to compile all carry audio
\* that this run synthesized, one provider call per slide.
C26_RetryFromScratch ==
  [][ /\ (pc = "failed" /\ runs' = runs) =>
           /\ pc' = "failed"
           /\ UNCHANGED << calls, slides, slidesState, ttsIndex, audioContext >>
      /\ (runs' = runs + 1 /\ runs >= 1) =>
           /\ pc = "failed" /\ error # Null
           /\ ttsIndex' = 0
           /\ audioContext' = "none"
           /\ calls' = IF ttsProvider = "webspeech" \/ Len(slides') = 0
                       THEN << >> ELSE << slides'[1].script >>
      /\ (pc # "new" /\ pc' = "new") =>
           /\ Len(calls') = Len(slides')
           /\ \A i \in 1..Len(slides') :
                slides'[i].audioBuffer.present /\ slides'[i].audioBuffer.run = runs'
    ]_vars

\* the retried run asks the provider for slide 0 again although the failed run
\* had synthesized every slide
C26_Witness ==
  /\ runs = 2
  /\ pc = "tts"
  /\ calls = << slides[1].script >>
  /\ \A i \in 1..Len(slides) :
       slides[i].audioBuffer.present /\ slides[i].audioBuffer.run = 1


\* C27: every compile run terminates: the frame loop never runs more than
\* totalFrames iterations, and compile eventually returns the artifact to its
\* caller or throws.
C27_CompileTerminates ==
  /\ [](framesDrawn <= totalFrames /\ currentFrame <= totalFrames)
  /\ <>(pc \in {"timer", "failed"})

\* compile has returned after a frame loop that ran all of its iterations
C27_Witness ==
  /\ pc = "timer"
  /\ totalFrames > 0
  /\ framesDrawn = totalFrames
  /\ recordingPromise = "resolved"


StageMoves ==
  { << "upload", "review" >>, << "review", "generate" >>, << "generate", "download" >>,
    << "review", "upload" >>, << "generate", "review" >>, << "download", "upload" >> }

\* C29: the stage changes only by the moves of the workflow; the stage is
\* download only with a final video blob; starting over clears the slides and
\* the blob.
C29_Workflow ==
  [][ /\ stage' # stage => << stage, stage' >> \in StageMoves
      /\ stage' = "download" => delivered' # NoBlob
      /\ (stage = "download" /\ stage' = "upload") =>
           projectSlides' = << >> /\ delivered' = NoBlob
    ]_vars


\* every slide of the list has a script that is not empty after trim
NonEmptyScripts(sl) == \A i \in 1..Len(sl) : trim(sl[i].text) # ""

\* C30: generation is entered from script review only when every slide's
\* script is non-empty after trim, and in every state in which a run has been
\* started (synthesis included) no slide of the run has an empty script.
C30_ScriptsNonEmpty ==
  [][ /\ (stage = "review" /\ stage' = "generate") =>
           NonEmptyScripts(reviewSlides) /\ projectSlides' = reviewSlides
      /\ pc' \in {"mount", "timer", "failed"} =>
           NonEmptyScripts(slides') /\ NonEmptyScripts(slidesState')
    ]_vars

\* a run on two slides whose scripts were written during review has finished
\* its synthesis
C30_Witness ==
  /\ stage = "generate"
  /\ pc = "timer"
  /\ Len(slides) = 2
  /\ \A i \in 1..Len(slides) : slides[i].text = "a"


\* C31: with the provider 'webspeech', which is the default one, a run fails
\* with the Web Speech error before any synthesis call and before a
\* VideoCompiler is created, and onComplete is not called; every run with the
\* default provider ends in this error.
C31_WebSpeechFailsFirst ==
  (ttsProvider = defaultProvider /\ runs >= 1) =>
    /\ ttsProvider = "webspeech"
    /\ pc = "failed"
    /\ error = "WebSpeech"
    /\ calls = << >>
    /\ audioContext = "none"
    /\ recorder = "none"
    /\ videoBlob = NoBlob
    /\ delivered = NoBlob
    /\ stage = "generate"

\* a run with Web Speech on a slide list that is not empty has been retried
\* and has failed again
C31_Witness ==
  /\ ttsProvider = "webspeech"
  /\ runs = 2
  /\ Len(slidesState) >= 1
  /\ error = "WebSpeech"


\* C32: slide i is drawn in exactly frames_i iterations of the loop: every
\* frame drawn shows the slide whose frames it belongs to (so a slide of 0
\* frames is never drawn), and when the loop has ended the number of draws is
\* the sum of the frames_i.
C32_FramesPerSlide ==
  /\ drawn.frame >= 0 =>
       /\ firstFrame(slideData, drawn.slide + 1) <= drawn.frame
       /\ drawn.frame < firstFrame(slideData, drawn.slide + 2)
  /\ pc = "stop" => framesDrawn = totalFrames


\* C33: in combineAudio every copy stays inside the combined buffer: for
\* every slide, its write offset plus its sample count is at most
\* totalSamples, for every padding and sample rate.
C33_CopiesInside ==
  /\ pc = "createRecorder" =>
       \A i \in 1..Len(slides) :
         slides[i].audioBuffer.present =>
           combinedAudio.offsets[i] + slides[i].audioBuffer.length <= combinedAudio.length
  /\ error # "Range"


\* the order of the stages a run reports
stageRank(st) ==
  CASE st = "tts" -> 1 [] st = "rendering" -> 2 [] st = "encoding" -> 3 [] st = "complete" -> 4

\* C34: within one run the reported progress never goes backwards: over
\* successive progress events the percentage does not decrease and the stage
\* only advances (tts, rendering, complete), and a successful run ends with
\* percentage 100.
C34_ProgressMonotone ==
  /\ \A k \in 1..(Len(progressEvents) - 1) :
       /\ progressEvents[k].percentage <= progressEvents[k + 1].percentage
       /\ stageRank(progressEvents[k].stage) <= stageRank(progressEvents[k + 1].stage)
  /\ pc \in {"timer", "done"} =>
       /\ progressEvents[Len(progressEvents)].percentage = 100
       /\ progressEvents[Len(progressEvents)].stage = "complete"

\* a successful run of three slides whose bar has moved during synthesis and
\* during rendering
C34_Witness ==
  /\ pc = "done"
  /\ Len(slides) = MaxSlides
  /\ \E k \in 1..Len(progressEvents) :
       progressEvents[k].stage = "tts" /\ progressEvents[k].percentage \in 1..29
  /\ \E k \in 1..Len(progressEvents) :
       progressEvents[k].stage = "rendering" /\ progressEvents[k].percentage \in 31..99


\* the run has reported the stage 'complete'
completeReported ==
  \E k \in 1..Len(progressEvents) : progressEvents[k].stage = "complete"

\* C35: 'complete' is reported only by a run that succeeds: once it has been
\* reported the run does not end in an error, and when the run is over the
\* artifact has been handed to onComplete.
C35_CompleteMeansSuccess ==
  completeReported =>
    /\ pc \in {"await", "timer", "done"}
    /\ error = Null
    /\ pc = "done" => delivered # NoBlob


\* C36: generateAllScripts asks a generated script only for a slide whose
\* script is empty at the moment the loop comes to it, so a script typed
\* while the loop was working on an earlier slide is not overwritten.
C36_BatchSkipsTyped ==
  [][ (batch'.active /\ batch'.loading # batch.loading) =>
        reviewSlides'[batch'.loading].text = ""
    ]_vars


\* C37: for the same slides, padding and fps, when every slide has at least
\* one frame, the four renderSlides draw the same sequence of slide indices:
\* the variants that have run agree with each other, every frame the current
\* loop draws is the frame the variant drew at that position, and when the
\* current renderSlides has ended it has drawn as many frames as the variant.
C37_SameDraws ==
  (\A i \in 1..Len(slides) : slideFrames(slides[i]) >= 1) =>
    /\ \A v, w \in Variants :
         (variantDraws[v].ran /\ variantDraws[w].ran) =>
           variantDraws[v].draws = variantDraws[w].draws
    /\ \A v \in Variants :
         variantDraws[v].ran =>
           /\ drawn.frame >= 0 =>
                /\ drawn.frame < Len(variantDraws[v].draws)
                /\ variantDraws[v].draws[drawn.frame + 1] = drawn.slide
           /\ pc \in {"stop", "failed"} => framesDrawn = Len(variantDraws[v].draws)
====
